---- MODULE Spec2Model ----
(***************************************************************************)
(* The Chimera orchestration backend as a state machine.                   *)
(*                                                                         *)
(*   - the LangGraph workflow (graphs/orchestration_workflow.py) driving   *)
(*     the nodes of graphs/orchestration_nodes.py through the routers of   *)
(*     graphs/orchestration_edges.py over one OrchestrationState dict;     *)
(*   - plan mode: the clarify stage and the repository calls of            *)
(*     database/jobs.py ahead of that graph;                               *)
(*   - the API job of api/routes/orchestrate.py: the background task       *)
(*     running the teams of orchestrator/service.py, and cancel_job.       *)
(*                                                                         *)
(* Python values are modelled as follows.  An optional string is a string  *)
(* or None; an optional dict (CodeOutput, ReviewResult) is a record or     *)
(* NoneRecord.  Backend texts are drawn from small sets of representative  *)
(* strings; "" is the empty text.  A raised exception is represented by    *)
(* its str(e), which may be "" (asyncio.TimeoutError has an empty str).    *)
(***************************************************************************)
EXTENDS Integers, Sequences, FiniteSets, TLC

VARIABLES
    state,      \* the OrchestrationState dict threaded through the graph
    pc,         \* position of the workflow driver
    tasks,      \* per backend: position of its coroutine inside asyncio.gather
    results,    \* per backend: value its gathered coroutine returned
    visited,    \* history: names of the nodes executed so far, in order
    entry,      \* history: the state dict as it was when the current node began
    jobs_repo,  \* orchestrate.py: whether the database repository was initialised
    db,         \* the job's row in the orchestration_jobs table, or NoneRecord
    jobs,       \* orchestrate.py: the keys of the in-memory jobs dict
    response,   \* the OrchestrationResponse object that jobs[job_id] was bound to
    run,        \* the background tasks _run_orchestration: position and locals
    cancel,     \* the cancel_job request: position
    late,       \* history: steps of the background task taken after cancel returned
    active_connections, \* websocket.py: manager.active_connections, job id -> set
    handlers,   \* per websocket: position of its websocket_orchestrate handler
    broadcasts, \* per publisher: position and locals of its broadcast_to_job call
    published   \* history: per task and team, the events passed to event_callback

wfVars == <<state, pc, tasks, results, visited, entry>>

apiVars == <<jobs_repo, db, jobs, response, run, cancel, late, active_connections,
            handlers, broadcasts, published>>

wsVars == <<handlers, broadcasts>>

vars == <<state, pc, tasks, results, visited, entry,
          jobs_repo, db, jobs, response, run, cancel, late, active_connections,
          handlers, broadcasts, published>>

----------------------------------------------------------------------------
(* Bounds and representative values *)

\* largest max_refinement_iterations a run is configured with
MaxRefinementIterations == 5

\* largest number of questions the clarification backend proposes
MaxQuestions == 2

None == "None"
NoneRecord == <<>>

Backends == {"anthropic", "google"}

\* texts a generation call may return, and str(e) of the exceptions it may raise
GenTexts == {"", "gen"}
RefineTexts == {"", "ref"}
PlanTexts == {"", "plan"}
ErrTexts == {"", "boom"}

Truthy(x) == x # None /\ x # ""

Last(seq) == seq[Len(seq)]

Range(seq) == {seq[i] : i \in 1..Len(seq)}

Count(seq, x) == Cardinality({i \in 1..Len(seq) : seq[i] = x})

IsPrefix(a, b) == Len(a) <= Len(b) /\ SubSeq(b, 1, Len(a)) = a

\* len(code.split())
WordCount(text) == IF text = "" THEN 0 ELSE IF text = "ref" THEN 2 ELSE 1

----------------------------------------------------------------------------
(* OrchestrationState and its helpers *)

OutputOf(s, b) == IF b = "anthropic" THEN s.anthropic_output ELSE s.google_output

ReviewOf(s, b) == IF b = "anthropic" THEN s.anthropic_review ELSE s.google_review

SetOutput(s, b, v) ==
    IF b = "anthropic" THEN [s EXCEPT !.anthropic_output = v]
                       ELSE [s EXCEPT !.google_output = v]

ThoughtItem(text, source) == [text |-> text, source |-> source]

\* mutant: the new item is put in front of the list
add_thought_prepend(s, text, source) ==
    [s EXCEPT !.thoughts = <<ThoughtItem(text, source)>> \o @]

add_thought(s, text, source) ==
    [s EXCEPT !.thoughts = Append(@, ThoughtItem(text, source))]

CodeOutput(code, error) ==
    [code |-> code, token_count |-> WordCount(code), error |-> error]

ReviewResult(has_issues, n_issues, confidence) ==
    [has_issues |-> has_issues, issues |-> n_issues, confidence |-> confidence]

create_initial_state(max_iter, enable_review, parallel_generation) ==
    [ plan                      |-> None,
      plan_content              |-> None,
      plan_approved             |-> FALSE,
      anthropic_output          |-> NoneRecord,
      google_output             |-> NoneRecord,
      anthropic_review          |-> NoneRecord,
      google_review             |-> NoneRecord,
      needs_refinement          |-> FALSE,
      refinement_iteration      |-> 0,
      max_refinement_iterations |-> max_iter,
      status                    |-> "initialized",
      current_phase             |-> "initialized",
      error_message             |-> None,
      thoughts                  |-> <<>>,
      enable_review             |-> enable_review,
      parallel_generation       |-> parallel_generation,
      skip_clarification        |-> FALSE,
      clarifying_questions      |-> <<>>,
      clarifying_answers        |-> {} ]

\* config.py: the presets, as far as _create_initial_state copies them into
\* the state
OrchestrationConfig(max_iter, enable_review, parallel_generation) ==
    [ max_refinement_iterations |-> max_iter,
      enable_review             |-> enable_review,
      parallel_generation       |-> parallel_generation ]

FAST_CONFIG == OrchestrationConfig(0, FALSE, TRUE)

BALANCED_CONFIG == OrchestrationConfig(1, TRUE, TRUE)

\* mutant: the thorough preset allows three refinement iterations
THOROUGH_CONFIG_three == OrchestrationConfig(3, TRUE, TRUE)

THOROUGH_CONFIG == OrchestrationConfig(2, TRUE, TRUE)

SEQUENTIAL_CONFIG == OrchestrationConfig(1, TRUE, FALSE)

DEBUG_CONFIG == OrchestrationConfig(0, FALSE, FALSE)

PresetNames == {"fast", "balanced", "thorough", "sequential", "debug"}

get_config_by_name(name) ==
    CASE name = "fast" -> FAST_CONFIG
      [] name = "balanced" -> BALANCED_CONFIG
      [] name = "thorough" -> THOROUGH_CONFIG
      [] name = "sequential" -> SEQUENTIAL_CONFIG
      [] name = "debug" -> DEBUG_CONFIG

----------------------------------------------------------------------------
(* Routers: each returns the next node's name and the state dict as the     *)
(* router leaves it (two of them write status and error_message).           *)

Route(next, s) == [next |-> next, state |-> s]

\* mutant: the empty-plan branch sets status without error_message
should_proceed_after_plan_no_message(s) ==
    IF s.status = "error" THEN Route("error", s)
    ELSE IF ~Truthy(s.plan)
         THEN Route("error", [s EXCEPT !.status = "error"])
         ELSE Route("generate", s)

\* mutant: the plan is tested before the status
should_proceed_after_plan_plan_first(s) ==
    IF ~Truthy(s.plan)
    THEN Route("error", [s EXCEPT !.status = "error",
                !.error_message = "Planning phase did not produce a plan"])
    ELSE IF s.status = "error" THEN Route("error", s)
    ELSE Route("generate", s)

should_proceed_after_plan(s) ==
    IF s.status = "error" THEN Route("error", s)
    ELSE IF ~Truthy(s.plan)
         THEN Route("error", [s EXCEPT !.status = "error",
                     !.error_message = "Planning phase did not produce a plan"])
         ELSE Route("generate", s)

OutputOk(o) == o # NoneRecord /\ Truthy(o.code) /\ ~Truthy(o.error)

\* mutant: one unusable output is enough to route to error
should_proceed_after_generate_any_failed(s) ==
    IF s.status = "error" THEN Route("error", s)
    ELSE IF ~OutputOk(s.anthropic_output) \/ ~OutputOk(s.google_output)
         THEN Route("error", [s EXCEPT !.status = "error",
                     !.error_message = "All code generation attempts failed"])
         ELSE IF s.enable_review THEN Route("review", s)
                                 ELSE Route("complete", s)

\* mutant: enable_review is not consulted
should_proceed_after_generate_always_review(s) ==
    IF s.status = "error" THEN Route("error", s)
    ELSE IF ~OutputOk(s.anthropic_output) /\ ~OutputOk(s.google_output)
         THEN Route("error", [s EXCEPT !.status = "error",
                     !.error_message = "All code generation attempts failed"])
         ELSE Route("review", s)

\* mutant: only anthropic's output is looked at
should_proceed_after_generate_anthropic_only(s) ==
    IF s.status = "error" THEN Route("error", s)
    ELSE IF ~OutputOk(s.anthropic_output)
         THEN Route("error", [s EXCEPT !.status = "error",
                     !.error_message = "All code generation attempts failed"])
         ELSE IF s.enable_review THEN Route("review", s)
                                 ELSE Route("complete", s)

should_proceed_after_generate(s) ==
    IF s.status = "error" THEN Route("error", s)
    ELSE IF ~OutputOk(s.anthropic_output) /\ ~OutputOk(s.google_output)
         THEN Route("error", [s EXCEPT !.status = "error",
                     !.error_message = "All code generation attempts failed"])
         ELSE IF s.enable_review THEN Route("review", s)
                                 ELSE Route("complete", s)

\* mutant: the iteration cap is tested with > instead of >=
should_proceed_after_review_off_by_one(s) ==
    IF s.status = "error" THEN Route("error", s)
    ELSE IF ~s.needs_refinement THEN Route("complete", s)
    ELSE IF s.refinement_iteration > s.max_refinement_iterations
         THEN Route("complete", s)
         ELSE Route("refine", s)

\* mutant: the router counts the refinement pass it routes to
should_proceed_after_review_counts(s) ==
    IF s.status = "error" THEN Route("error", s)
    ELSE IF ~s.needs_refinement THEN Route("complete", s)
    ELSE IF s.refinement_iteration >= s.max_refinement_iterations
         THEN Route("complete", s)
         ELSE Route("refine", [s EXCEPT !.refinement_iteration = @ + 1])

\* mutant: needs_refinement is not consulted
should_proceed_after_review_ignores_needs(s) ==
    IF s.status = "error" THEN Route("error", s)
    ELSE IF s.refinement_iteration >= s.max_refinement_iterations
         THEN Route("complete", s)
         ELSE Route("refine", s)

should_proceed_after_review(s) ==
    IF s.status = "error" THEN Route("error", s)
    ELSE IF ~s.needs_refinement THEN Route("complete", s)
    ELSE IF s.refinement_iteration >= s.max_refinement_iterations
         THEN Route("complete", s)
         ELSE Route("refine", s)

\* mutant: the iteration cap is not tested after refine
should_proceed_after_refine_always_review(s) ==
    IF s.status = "error" THEN Route("error", s) ELSE Route("review", s)

\* mutant: routing to complete clears needs_refinement
should_proceed_after_refine_clears(s) ==
    IF s.status = "error" THEN Route("error", s)
    ELSE IF s.refinement_iteration >= s.max_refinement_iterations
         THEN Route("complete", [s EXCEPT !.needs_refinement = FALSE])
         ELSE Route("review", s)

\* mutant: the iteration cap after refine is tested with > instead of >=
should_proceed_after_refine_off_by_one(s) ==
    IF s.status = "error" THEN Route("error", s)
    ELSE IF s.refinement_iteration > s.max_refinement_iterations
         THEN Route("complete", s)
         ELSE Route("review", s)

should_proceed_after_refine(s) ==
    IF s.status = "error" THEN Route("error", s)
    ELSE IF s.refinement_iteration >= s.max_refinement_iterations
         THEN Route("complete", s)
         ELSE Route("review", s)

----------------------------------------------------------------------------
(* Node bodies, as functions of the state dict *)

\* the ids of the first n questions the clarification backend proposed
Questions(n) == SubSeq(<<"q1", "q2", "q3", "q4">>, 1, n)

\* clarify_node with skip_clarification set: no backend call
clarify_node_skip(s) ==
    [add_thought(s, "Skipping clarification phase", "planner")
        EXCEPT !.clarifying_questions = <<>>]

\* clarify_node up to its await of the clarification backend
clarify_node_begin(s) ==
    add_thought([s EXCEPT !.status = "clarifying", !.current_phase = "clarifying"],
                "Analyzing brief to identify clarifying questions", "planner")

\* clarify_node after the backend answered; questions is the parsed list, empty
\* when the answer lists none or does not parse
clarify_node_return(s, questions) ==
    LET s1 == [s EXCEPT !.clarifying_questions = questions]
    IN  IF Len(questions) > 0
        THEN add_thought([s1 EXCEPT !.status = "awaiting_answers"],
                         "Generated clarifying questions - awaiting user responses",
                         "planner")
        ELSE add_thought(s1, "Brief is clear - no clarification needed", "planner")

\* clarify_node's except branch, e = str(exception)
clarify_node_except(s, e) ==
    add_thought([s EXCEPT !.status = "error",
                          !.error_message = "Clarification failed: " \o e],
                "Clarification error: " \o e, "planner")

\* the answers of the clarification backend: a JSON object listing n
\* well-formed questions, text that is not JSON, a JSON object with a question
\* entry that has no "question" key, or JSON that is not an object (an array)
ClarifyResponses ==
    {[kind |-> "object", n |-> n] : n \in 0..MaxQuestions}
        \cup {[kind |-> k, n |-> 0] : k \in {"invalid_json", "missing_question",
                                              "not_object"}}

\* clarify_node's parsing of the response: json.loads raises JSONDecodeError,
\* q["question"] raises KeyError, data.get on a list raises AttributeError
parse_questions(answer) ==
    CASE answer.kind = "object" ->
            [exception |-> None, questions |-> Questions(answer.n)]
      [] answer.kind = "invalid_json" ->
            [exception |-> "JSONDecodeError", questions |-> <<>>]
      [] answer.kind = "missing_question" ->
            [exception |-> "KeyError", questions |-> <<>>]
      [] answer.kind = "not_object" ->
            [exception |-> "AttributeError", questions |-> <<>>]

\* clarify_node from the backend's answer on: the inner except clause catches
\* (json.JSONDecodeError, KeyError) and goes on without questions; any other
\* exception reaches the node's outer except clause
clarify_node_parse(s, answer) ==
    LET p == parse_questions(answer)
    IN  IF p.exception = None THEN clarify_node_return(s, p.questions)
        ELSE IF p.exception \in {"JSONDecodeError", "KeyError"}
             THEN clarify_node_return(s, <<>>)
             ELSE clarify_node_except(s, "'list' object has no attribute 'get'")

\* plan_node's prompt, as far as it depends on the state: one "Q / A" entry per
\* clarifying question, the answer looked up by the question's id with the
\* default "Not answered"; the empty sequence stands for "No clarifying
\* questions were needed."
PlanPrompt(s) ==
    [i \in 1..Len(s.clarifying_questions) |->
        [q |-> s.clarifying_questions[i],
         a |-> IF s.clarifying_questions[i] \in s.clarifying_answers
               THEN "answered" ELSE "Not answered"]]

\* plan_node up to its await of the planning backend
plan_node_begin(s) ==
    add_thought([s EXCEPT !.status = "planning", !.current_phase = "planning"],
                "Starting planning phase", "planner")

\* plan_node after the backend returned `plan`
plan_node_return(s, plan) ==
    add_thought([s EXCEPT !.plan_content = plan,
                          !.plan_approved = FALSE,
                          !.status = "awaiting_approval",
                          !.plan = plan],
                "Implementation plan created - awaiting user approval", "planner")

\* plan_node's except branch, e = str(exception)
plan_node_except(s, e) ==
    add_thought([s EXCEPT !.status = "error",
                          !.error_message = "Planning failed: " \o e],
                "Planning error: " \o e, "planner")

generate_node_begin(s) ==
    add_thought([s EXCEPT !.status = "generating", !.current_phase = "generating"],
                "Starting code generation phase", "planner")

\* _generate_with_anthropic / _generate_with_google up to the await
generate_with_begin(s, b) ==
    add_thought(s, b \o " team analyzing requirements", b)

generate_with_return(s, b, code) ==
    add_thought(SetOutput(s, b, CodeOutput(code, None)),
                b \o " team generated code", b)

\* mutant: a failed call also puts the run into error
generate_with_except_sets_status(s, b, e) ==
    add_thought([SetOutput(s, b, CodeOutput("", e)) EXCEPT !.status = "error"],
                b \o " generation error: " \o e, b)

generate_with_except(s, b, e) ==
    add_thought(SetOutput(s, b, CodeOutput("", e)),
                b \o " generation error: " \o e, b)

\* generate_node's code after the gather only logs and returns the state.

\* history: what a backend's complete() call did, return text or raise
Returned(code) == [code |-> code, exception |-> None]

Raised(e) == [code |-> None, exception |-> e]

\* mutant: a backend that returns after the other one has stored its output
\* leaves the stored output alone and drops its own
generate_with_result_first_wins(s, b, r) ==
    IF r.exception # None THEN generate_with_except(s, b, r.exception)
    ELSE IF \E o \in Backends \ {b} : OutputOf(s, o) # NoneRecord
    THEN add_thought(s, b \o " team generated code", b)
    ELSE generate_with_return(s, b, r.code)

\* _generate_with_anthropic / _generate_with_google after the await
generate_with_result(s, b, r) ==
    IF r.exception = None THEN generate_with_return(s, b, r.code)
    ELSE generate_with_except(s, b, r.exception)

\* generate_node lines 383-386: sequential mode, anthropic's helper run to its
\* end and then google's
generate_sequential(s, res) ==
    LET a == generate_with_result(generate_with_begin(s, "anthropic"),
                                  "anthropic", res["anthropic"])
    IN  generate_with_result(generate_with_begin(a, "google"), "google",
                             res["google"])

\* review_node with enable_review false: no backend call
review_node_disabled(s) ==
    [add_thought(s, "Review disabled - skipping review phase", "reviewer")
        EXCEPT !.needs_refinement = FALSE]

review_node_begin(s) ==
    add_thought([s EXCEPT !.status = "reviewing", !.current_phase = "reviewing"],
                "Starting review phase", "reviewer")

\* the condition under which review_node creates (and later reads) a review task
ReviewEligible(o) == o # NoneRecord /\ ~Truthy(o.error)

\* _review_code up to its await
review_code_begin(s, source) ==
    add_thought(s, "Reviewing " \o source \o " output", "reviewer")

\* _review_code after the reviewer's verdict was parsed: the thought it adds
review_code_return(s, source, result) ==
    IF result.has_issues
    THEN add_thought(s, source \o " review found issues", "reviewer")
    ELSE add_thought(s, source \o " review passed", "reviewer")

\* the ReviewResult _review_code builds from a parsed verdict
ParsedReview(has_issues) ==
    IF has_issues THEN ReviewResult(TRUE, 1, 8) ELSE ReviewResult(FALSE, 0, 8)

\* mutant: the except branch reports issues
DefaultReview_has_issues == ReviewResult(TRUE, 0, 5)

\* the ReviewResult _review_code returns from its except branch
DefaultReview == ReviewResult(FALSE, 0, 5)

\* the list asyncio.gather returns: one result per created task, in task order
GatheredReviews(res, created) ==
    (IF "anthropic" \in created THEN <<res["anthropic"]>> ELSE <<>>)
    \o (IF "google" \in created THEN <<res["google"]>> ELSE <<>>)

\* mutant: refinement is asked for only when both reviews have issues
review_node_end_both_flagged(s, reviews) ==
    LET a_ok == ReviewEligible(s.anthropic_output)
        g_ok == ReviewEligible(s.google_output)
        s1 == IF reviews # <<>> /\ a_ok
              THEN [s EXCEPT !.anthropic_review = reviews[1]] ELSE s
        s2 == IF reviews # <<>> /\ g_ok
              THEN [s1 EXCEPT !.google_review = reviews[IF a_ok THEN 2 ELSE 1]]
              ELSE s1
        anthropic_needs_work ==
            s2.anthropic_review # NoneRecord /\ s2.anthropic_review.has_issues
        google_needs_work ==
            s2.google_review # NoneRecord /\ s2.google_review.has_issues
        s3 == [s2 EXCEPT !.needs_refinement =
                            anthropic_needs_work /\ google_needs_work]
    IN  IF s3.needs_refinement
        THEN add_thought(s3, "Review found issues that need refinement", "reviewer")
        ELSE add_thought(s3, "Review complete - code meets quality standards",
                         "reviewer")

\* mutant: google_review is always read at index 0 of the gathered list
review_node_end_first_review(s, reviews) ==
    LET a_ok == ReviewEligible(s.anthropic_output)
        g_ok == ReviewEligible(s.google_output)
        s1 == IF reviews # <<>> /\ a_ok
              THEN [s EXCEPT !.anthropic_review = reviews[1]] ELSE s
        s2 == IF reviews # <<>> /\ g_ok
              THEN [s1 EXCEPT !.google_review = reviews[1]]
              ELSE s1
        s3 == [s2 EXCEPT !.needs_refinement =
                  \/ s2.anthropic_review # NoneRecord /\ s2.anthropic_review.has_issues
                  \/ s2.google_review # NoneRecord /\ s2.google_review.has_issues]
    IN  IF s3.needs_refinement
        THEN add_thought(s3, "Review found issues that need refinement", "reviewer")
        ELSE add_thought(s3, "Review complete - code meets quality standards",
                         "reviewer")

\* review_node after the gather: store the reviews, decide needs_refinement
review_node_end(s, reviews) ==
    LET a_ok == ReviewEligible(s.anthropic_output)
        g_ok == ReviewEligible(s.google_output)
        s1 == IF reviews # <<>> /\ a_ok
              THEN [s EXCEPT !.anthropic_review = reviews[1]] ELSE s
        s2 == IF reviews # <<>> /\ g_ok
              THEN [s1 EXCEPT !.google_review = reviews[IF a_ok THEN 2 ELSE 1]]
              ELSE s1
        anthropic_needs_work ==
            s2.anthropic_review # NoneRecord /\ s2.anthropic_review.has_issues
        google_needs_work ==
            s2.google_review # NoneRecord /\ s2.google_review.has_issues
        s3 == [s2 EXCEPT !.needs_refinement =
                            anthropic_needs_work \/ google_needs_work]
    IN  IF s3.needs_refinement
        THEN add_thought(s3, "Review found issues that need refinement", "reviewer")
        ELSE add_thought(s3, "Review complete - code meets quality standards",
                         "reviewer")

\* mutant: the iteration counter is not incremented
refine_node_begin_no_increment(s) ==
    add_thought([s EXCEPT !.status = "refining", !.current_phase = "refining"],
                "Starting refinement phase", "refiner")

refine_node_begin(s) ==
    add_thought([s EXCEPT !.status = "refining",
                          !.current_phase = "refining",
                          !.refinement_iteration = @ + 1],
                "Starting refinement phase", "refiner")

\* the condition under which refine_node creates a refine task for a backend
RefineFlagged(s, b) ==
    /\ OutputOf(s, b) # NoneRecord
    /\ ReviewOf(s, b) # NoneRecord
    /\ ReviewOf(s, b).has_issues

refine_code_begin(s, source) ==
    add_thought(s, "Refining " \o source \o " code", "refiner")

\* mutant: a refine call that succeeded counts as an iteration of its own
refine_code_return_counts(s, source, refined_code) ==
    LET s1 == IF OutputOf(s, source) # NoneRecord
              THEN SetOutput(s, source,
                       [OutputOf(s, source) EXCEPT
                            !.code = refined_code,
                            !.token_count = WordCount(refined_code)])
              ELSE s
    IN  add_thought([s1 EXCEPT !.refinement_iteration = @ + 1], source \o " code refined successfully", "refiner")

refine_code_return(s, source, refined_code) ==
    LET s1 == IF OutputOf(s, source) # NoneRecord
              THEN SetOutput(s, source,
                       [OutputOf(s, source) EXCEPT
                            !.code = refined_code,
                            !.token_count = WordCount(refined_code)])
              ELSE s
    IN  add_thought(s1, source \o " code refined successfully", "refiner")

\* mutant: a failed refine call discards the backend's code
refine_code_except_clears(s, source, e) ==
    add_thought(SetOutput(s, source, [OutputOf(s, source) EXCEPT !.code = ""]),
                source \o " refinement error: " \o e, "refiner")

refine_code_except(s, source, e) ==
    add_thought(s, source \o " refinement error: " \o e, "refiner")

refine_node_end(s) ==
    add_thought(s, "Refinement iteration complete", "refiner")

complete_node(s) ==
    add_thought([s EXCEPT !.status = "complete", !.current_phase = "complete"],
                "Orchestration workflow complete", "planner")

\* mutant: the error node resets error_message
error_node_clears(s) ==
    [s EXCEPT !.status = "error", !.current_phase = "error",
              !.error_message = None]

\* mutant: the error node stamps a message of its own
error_node_overwrites(s) ==
    [s EXCEPT !.status = "error", !.current_phase = "error",
              !.error_message = "Workflow error"]

error_node(s) ==
    [s EXCEPT !.status = "error", !.current_phase = "error"]

----------------------------------------------------------------------------
(* The workflow driver: the compiled graph of _build_graph executing one    *)
(* run.  pc names the node about to run or the await the node is parked at. *)

NoTasks == [b \in Backends |-> "none"]
NoResults == [b \in Backends |-> NoneRecord]

AllDone == \A b \in Backends : tasks[b] \in {"none", "done"}

\* asyncio starts gathered coroutines in the order they were passed
MayBegin(b) ==
    /\ tasks[b] = "created"
    /\ b = "google" => tasks["anthropic"] # "created"

\* The model keeps in state.thoughts the items appended since the current node
\* began: the only access the code makes to the list is list.append
\* (_add_thought), so the older items are dropped from the model's state when
\* the next node is entered.
Forget(s) == [s EXCEPT !.thoughts = <<>>]

EnterNode(name) ==
    /\ visited' = Append(visited, name)
    /\ entry' = Forget(state)

PlanStart ==
    /\ pc = "plan"
    /\ state' = plan_node_begin(Forget(state))
    /\ pc' = "plan_await"
    /\ EnterNode("plan")
    /\ UNCHANGED <<tasks, results>>
    /\ UNCHANGED apiVars

PlanReturn ==
    /\ pc = "plan_await"
    /\ \E plan \in PlanTexts : state' = plan_node_return(state, plan)
    /\ pc' = "plan_done"
    /\ UNCHANGED <<tasks, results, visited, entry>>
    /\ UNCHANGED apiVars

PlanExcept ==
    /\ pc = "plan_await"
    /\ \E e \in ErrTexts : state' = plan_node_except(state, e)
    /\ pc' = "plan_done"
    /\ UNCHANGED <<tasks, results, visited, entry>>
    /\ UNCHANGED apiVars

RouteAfterPlan ==
    /\ pc = "plan_done"
    /\ LET r == should_proceed_after_plan(state)
       IN  state' = r.state /\ pc' = r.next
    /\ UNCHANGED <<tasks, results, visited, entry>>
    /\ UNCHANGED apiVars

GenerateStart ==
    /\ pc = "generate"
    /\ state' = generate_node_begin(Forget(state))
    /\ tasks' = [b \in Backends |-> "created"]
    /\ pc' = "generate_await"
    /\ EnterNode("generate")
    /\ UNCHANGED results
    /\ UNCHANGED apiVars

\* sequential mode awaits anthropic's coroutine before it calls google's
GenBegin(b) ==
    /\ pc = "generate_await"
    /\ MayBegin(b)
    /\ (~state.parallel_generation /\ b = "google") => tasks["anthropic"] = "done"
    /\ state' = generate_with_begin(state, b)
    /\ tasks' = [tasks EXCEPT ![b] = "running"]
    /\ UNCHANGED <<pc, results, visited, entry>>
    /\ UNCHANGED apiVars

GenReturn(b) ==
    /\ pc = "generate_await"
    /\ tasks[b] = "running"
    /\ \E code \in GenTexts :
          /\ state' = generate_with_result(state, b, Returned(code))
          /\ results' = [results EXCEPT ![b] = Returned(code)]
    /\ tasks' = [tasks EXCEPT ![b] = "done"]
    /\ UNCHANGED <<pc, visited, entry>>
    /\ UNCHANGED apiVars

GenExcept(b) ==
    /\ pc = "generate_await"
    /\ tasks[b] = "running"
    /\ \E e \in ErrTexts :
          /\ state' = generate_with_result(state, b, Raised(e))
          /\ results' = [results EXCEPT ![b] = Raised(e)]
    /\ tasks' = [tasks EXCEPT ![b] = "done"]
    /\ UNCHANGED <<pc, visited, entry>>
    /\ UNCHANGED apiVars

RouteAfterGenerate ==
    /\ pc = "generate_await"
    /\ \A b \in Backends : tasks[b] = "done"
    /\ LET r == should_proceed_after_generate(state)
       IN  state' = r.state /\ pc' = r.next
    /\ tasks' = NoTasks
    /\ results' = NoResults
    /\ UNCHANGED <<visited, entry>>
    /\ UNCHANGED apiVars

\* with review disabled the node returns at once, without a backend call
ReviewStart ==
    /\ pc = "review"
    /\ IF ~state.enable_review
       THEN /\ state' = review_node_disabled(Forget(state))
            /\ tasks' = NoTasks
            /\ pc' = "review_done"
       ELSE /\ state' = review_node_begin(Forget(state))
            /\ tasks' = [b \in Backends |->
                    IF ReviewEligible(OutputOf(state, b)) THEN "created" ELSE "none"]
            /\ pc' = "review_await"
    /\ results' = NoResults
    /\ EnterNode("review")
    /\ UNCHANGED apiVars

ReviewBegin(b) ==
    /\ pc = "review_await"
    /\ MayBegin(b)
    /\ state' = review_code_begin(state, b)
    /\ tasks' = [tasks EXCEPT ![b] = "running"]
    /\ UNCHANGED <<pc, results, visited, entry>>
    /\ UNCHANGED apiVars

\* the reviewer answered and the answer parsed as a verdict
ReviewReturn(b) ==
    /\ pc = "review_await"
    /\ tasks[b] = "running"
    /\ \E has_issues \in BOOLEAN :
          /\ results' = [results EXCEPT ![b] = ParsedReview(has_issues)]
          /\ state' = review_code_return(state, b, ParsedReview(has_issues))
    /\ tasks' = [tasks EXCEPT ![b] = "done"]
    /\ UNCHANGED <<pc, visited, entry>>
    /\ UNCHANGED apiVars

\* the reviewer call raised, or its answer did not parse
ReviewExcept(b) ==
    /\ pc = "review_await"
    /\ tasks[b] = "running"
    /\ results' = [results EXCEPT ![b] = DefaultReview]
    /\ tasks' = [tasks EXCEPT ![b] = "done"]
    /\ UNCHANGED <<state, pc, visited, entry>>
    /\ UNCHANGED apiVars

ReviewEnd ==
    /\ pc = "review_await"
    /\ AllDone
    /\ state' = review_node_end(state,
                    GatheredReviews(results, {b \in Backends : tasks[b] = "done"}))
    /\ tasks' = NoTasks
    /\ results' = NoResults
    /\ pc' = "review_done"
    /\ UNCHANGED <<visited, entry>>
    /\ UNCHANGED apiVars

RouteAfterReview ==
    /\ pc = "review_done"
    /\ LET r == should_proceed_after_review(state)
       IN  state' = r.state /\ pc' = r.next
    /\ UNCHANGED <<tasks, results, visited, entry>>
    /\ UNCHANGED apiVars

RefineStart ==
    /\ pc = "refine"
    /\ state' = refine_node_begin(Forget(state))
    /\ tasks' = [b \in Backends |->
                    IF RefineFlagged(state, b) THEN "created" ELSE "none"]
    /\ pc' = "refine_await"
    /\ EnterNode("refine")
    /\ UNCHANGED results
    /\ UNCHANGED apiVars

RefineBegin(b) ==
    /\ pc = "refine_await"
    /\ MayBegin(b)
    /\ state' = refine_code_begin(state, b)
    /\ tasks' = [tasks EXCEPT ![b] = "running"]
    /\ UNCHANGED <<pc, results, visited, entry>>
    /\ UNCHANGED apiVars

RefineReturn(b) ==
    /\ pc = "refine_await"
    /\ tasks[b] = "running"
    /\ \E code \in RefineTexts : state' = refine_code_return(state, b, code)
    /\ tasks' = [tasks EXCEPT ![b] = "done"]
    /\ UNCHANGED <<pc, results, visited, entry>>
    /\ UNCHANGED apiVars

RefineExcept(b) ==
    /\ pc = "refine_await"
    /\ tasks[b] = "running"
    /\ \E e \in ErrTexts : state' = refine_code_except(state, b, e)
    /\ tasks' = [tasks EXCEPT ![b] = "done"]
    /\ UNCHANGED <<pc, results, visited, entry>>
    /\ UNCHANGED apiVars

RefineEnd ==
    /\ pc = "refine_await"
    /\ AllDone
    /\ state' = refine_node_end(state)
    /\ tasks' = NoTasks
    /\ pc' = "refine_done"
    /\ UNCHANGED <<results, visited, entry>>
    /\ UNCHANGED apiVars

RouteAfterRefine ==
    /\ pc = "refine_done"
    /\ LET r == should_proceed_after_refine(state)
       IN  state' = r.state /\ pc' = r.next
    /\ UNCHANGED <<tasks, results, visited, entry>>
    /\ UNCHANGED apiVars

\* complete -> END
CompleteNode ==
    /\ pc = "complete"
    /\ state' = complete_node(Forget(state))
    /\ pc' = "END"
    /\ EnterNode("complete")
    /\ UNCHANGED <<tasks, results>>
    /\ UNCHANGED apiVars

\* error -> END
ErrorNode ==
    /\ pc = "error"
    /\ state' = error_node(Forget(state))
    /\ pc' = "END"
    /\ EnterNode("error")
    /\ UNCHANGED <<tasks, results>>
    /\ UNCHANGED apiVars

----------------------------------------------------------------------------
(* The jobs table (database/jobs.py), the in-memory jobs dict and the       *)
(* background task of api/routes/orchestrate.py running the teams of        *)
(* orchestrator/service.py, for one job id.                                 *)

JobId == "job-1"

\* service.py TeamOutput.__init__
TeamOutput(team) ==
    [ team           |-> team,
      status         |-> "pending",
      thoughts       |-> <<>>,
      generated_code |-> None,
      token_count    |-> 0,
      error_message  |-> None ]

TeamOutput_add_thought(t, text) == [t EXCEPT !.thoughts = Append(@, text)]

\* a dict keyed by the included teams; a team that is no key maps to NoneRecord
TeamsDict(include_teams) ==
    [b \in Backends |-> IF b \in include_teams THEN TeamOutput(b) ELSE NoneRecord]

\* submit_brief: the response object stored in jobs[job_id]
OrchestrationResponse(include_teams) ==
    [ status       |-> "received",
      teams        |-> TeamsDict(include_teams),
      total_tokens |-> 0 ]

\* JobsRepository.create_job: the inserted row
create_job(teams) ==
    [ status               |-> "received",
      teams                |-> teams,
      total_tokens         |-> 0,
      clarifying_questions |-> <<>>,
      clarifying_answers   |-> {},
      plan_content         |-> None,
      plan_approved        |-> FALSE ]

\* The update and delete statements select the row by id: they change nothing
\* when the row is gone.
update_job_status(row, status) ==
    IF row = NoneRecord THEN row ELSE [row EXCEPT !.status = status]

update_job(row, status, teams, total_tokens) ==
    IF row = NoneRecord THEN row
    ELSE [row EXCEPT !.status = status, !.teams = teams,
                     !.total_tokens = total_tokens]

delete_job(row) == NoneRecord

update_clarifying_questions(row, questions) ==
    IF row = NoneRecord THEN row
    ELSE [row EXCEPT !.clarifying_questions = questions,
                     !.status = "awaiting_answers"]

\* mutant: the update sets the status and leaves the answers column alone
submit_clarifying_answers_status_only(row, answers) ==
    IF row = NoneRecord THEN row ELSE [row EXCEPT !.status = "planning"]

submit_clarifying_answers(row, answers) ==
    IF row = NoneRecord THEN row
    ELSE [row EXCEPT !.clarifying_answers = answers, !.status = "planning"]

update_plan_content(row, plan_content) ==
    IF row = NoneRecord THEN row
    ELSE [row EXCEPT !.plan_content = plan_content,
                     !.status = "awaiting_approval",
                     !.plan_approved = FALSE]

\* mutant: the edited plan is never written
approve_plan_keeps_plan(row, modified_plan) ==
    IF row = NoneRecord THEN row
    ELSE [row EXCEPT !.plan_approved = TRUE, !.status = "dispatching"]

\* modified_plan is None when the caller passes no edited plan
approve_plan(row, modified_plan) ==
    IF row = NoneRecord THEN row
    ELSE [row EXCEPT !.plan_approved = TRUE,
                     !.status = "dispatching",
                     !.plan_content = IF Truthy(modified_plan)
                                      THEN modified_plan ELSE @]

\* get_job_status: the row if the database has one, else the in-memory job,
\* else 404
get_job_status ==
    IF jobs_repo /\ db # NoneRecord THEN db.status
    ELSE IF JobId \in jobs THEN response.status
    ELSE "404"

\* generate_with_anthropic / generate_with_google, from entry to the first await
generate_thinking(t) == [t EXCEPT !.status = "thinking"]

\* ... from there to the await of the backend's complete()
generate_generating(t) ==
    TeamOutput_add_thought(
        [TeamOutput_add_thought(t, "Analyzing the brief")
            EXCEPT !.status = "generating"],
        "Generating component")

\* ... after complete() returned `code`
generate_complete(t, code) ==
    TeamOutput_add_thought(
        [t EXCEPT !.generated_code = code,
                  !.token_count = WordCount(code),
                  !.status = "complete"],
        "Code generation complete")

\* mutant: the except branch records the message and leaves the status
generate_error_keeps_status(t, e) ==
    TeamOutput_add_thought([t EXCEPT !.error_message = e],
                           "Error during generation: " \o e)

\* ... the except branch, e = str(exception)
generate_error(t, e) ==
    TeamOutput_add_thought(
        [t EXCEPT !.status = "error", !.error_message = e],
        "Error during generation: " \o e)

\* _run_orchestration, lines 171-188: totals and final status of the team outputs
TotalTokens(teams) ==
    (IF teams["anthropic"] = NoneRecord THEN 0 ELSE teams["anthropic"].token_count)
  + (IF teams["google"] = NoneRecord THEN 0 ELSE teams["google"].token_count)

FinalStatus(teams) ==
    LET present == {b \in Backends : teams[b] # NoneRecord}
    IN  IF \E b \in present : teams[b].status = "error" THEN "error"
        ELSE IF \A b \in present : teams[b].status = "complete" THEN "complete"
        ELSE "awaiting"

\* largest number of background tasks queued for the job (submit_brief queues
\* one, each trigger_generation one more)
MaxRuns == 2

Tasks == 1..MaxRuns

\* largest number of WebSocket clients connected for the job
MaxConnections == 2

Connections == 1..MaxConnections

\* largest number of broadcast_to_job calls in progress at the same time
MaxBroadcasts == 2

Publishers == 1..MaxBroadcasts

NoRun ==
    [ pc             |-> "none",
      job            |-> FALSE,
      include_teams  |-> {},
      event_callback |-> FALSE,
      db_error       |-> FALSE,
      teams          |-> [b \in Backends |-> NoneRecord],
      tasks          |-> [b \in Backends |-> "none"] ]

NoRuns == [t \in Tasks |-> NoRun]

\* a background task as BackgroundTasks.add_task queues it
QueuedRun(include_teams) ==
    [NoRun EXCEPT !.pc = "queued", !.include_teams = include_teams,
                  !.event_callback = TRUE]

NoCancel == [pc |-> "idle", during_generation |-> FALSE]

\* history: a step of a background task taken after cancel_job returned
Note(step) ==
    late' = IF cancel.pc = "returned" THEN late \cup {step} ELSE late

\* ConnectionManager.__init__: no job id has an entry
NoConnections == [j \in {} |-> {}]

\* the websockets registered under a job id; none when the id has no entry
Registered(connections, job_id) ==
    IF job_id \in DOMAIN connections THEN connections[job_id] ELSE {}

\* a registry in which the websockets of `open` are registered under JobId
Registry(open) ==
    IF open = {} THEN NoConnections ELSE [j \in {JobId} |-> open]

\* ConnectionManager.connect after websocket.accept() returned: the set is
\* created when the job id has none and the websocket is added, with no await
\* in between
connect(connections, websocket, job_id) ==
    [j \in DOMAIN connections \cup {job_id} |->
        IF j = job_id THEN Registered(connections, job_id) \cup {websocket}
                      ELSE connections[j]]

\* mutant: the entry of a job is kept when its last websocket is discarded
disconnect_keeps_entry(connections, websocket, job_id) ==
    [j \in DOMAIN connections |->
        IF j = job_id THEN connections[j] \ {websocket} ELSE connections[j]]

\* ConnectionManager.disconnect: discard the websocket from the job's set and
\* delete the entry when the set became empty; nothing for an unknown job id
disconnect(connections, websocket, job_id) ==
    IF job_id \notin DOMAIN connections THEN connections
    ELSE IF connections[job_id] \ {websocket} = {}
    THEN [j \in DOMAIN connections \ {job_id} |-> connections[j]]
    ELSE [connections EXCEPT ![job_id] = @ \ {websocket}]

\* broadcast_to_job lines 70-71: disconnect every websocket of the list
RECURSIVE disconnect_each(_, _, _)
disconnect_each(connections, disconnected, job_id) ==
    IF disconnected = <<>> THEN connections
    ELSE disconnect_each(disconnect(connections, Head(disconnected), job_id),
                         Tail(disconnected), job_id)

\* the orders in which list(set) can enumerate a set
Lists(S) == {seq \in [1..Cardinality(S) -> S] : Range(seq) = S}

\* mutant: a failed send is not caught and raises into the caller
broadcast_to_job_unguarded(connections, failed) ==
    [connections |-> connections, raised |-> failed # {}]

\* ConnectionManager.broadcast_to_job for JobId, taken as one step (no
\* websocket connects or leaves during a run of the job): send to every
\* connection of the job; a connection whose send fails is logged and
\* disconnected, nothing is raised
broadcast_to_job(connections, failed) ==
    [connections |-> disconnect_each(connections,
                         CHOOSE seq \in Lists(failed) : TRUE, JobId),
     raised |-> FALSE]

\* the publishes one step of a team makes through event_callback, awaited or
\* scheduled with create_task: with no callback nothing is sent
Publish(r, failed) ==
    IF r.event_callback THEN broadcast_to_job(active_connections, failed)
    ELSE [connections |-> active_connections, raised |-> FALSE]

\* the events a team passes to event_callback with await (its thoughts are
\* passed in tasks of their own)
StatusChange(status) == [type |-> "status_change", status |-> status]

CodeGenerated == [type |-> "code_generated", status |-> None]

ErrorEvent == [type |-> "error", status |-> "error"]

NoEvents == [t \in Tasks |-> [b \in Backends |-> <<>>]]

\* mutant: code_generated is published before the complete status_change
generate_complete_events_code_first == <<CodeGenerated, StatusChange("complete")>>

\* generate_with_* lines 126-131: the publishes after complete() returned
generate_complete_events == <<StatusChange("complete"), CodeGenerated>>

\* a publish that raises inside the try block is followed by the error event
\* of the except branch
ExceptEvents(p) == IF p.raised THEN <<ErrorEvent>> ELSE <<>>

\* history: the awaited publishes of one step of a team
Published(t, b, events) ==
    published' = [published EXCEPT ![t][b] =
        IF run[t].event_callback THEN @ \o events ELSE @]

\* an awaited publish that raises inside the try block of generate_with_* sends
\* the coroutine to its except branch
TeamAfterPublish(team, p) ==
    IF p.raised THEN generate_error(team, "send failed") ELSE team

\* _run_orchestration lines 105-106; without a repository there is no await
\* before lines 108-110
RunDispatching(t) ==
    /\ run[t].pc = "queued"
    /\ IF jobs_repo
       THEN /\ \E ok \in BOOLEAN :
                 IF ok THEN /\ db' = update_job_status(db, "dispatching")
                            /\ run' = [run EXCEPT ![t].pc = "get_job"]
                       ELSE /\ db' = db
                            /\ run' = [run EXCEPT ![t].pc = "except",
                                                  ![t].db_error = TRUE]
            /\ response' = response
       ELSE /\ db' = db
            /\ run' = [run EXCEPT ![t].pc = "orchestrate",
                                  ![t].job = (JobId \in jobs)]
            /\ response' = IF JobId \in jobs
                           THEN [response EXCEPT !.status = "dispatching"]
                           ELSE response
    /\ Note("status")
    /\ UNCHANGED <<jobs_repo, jobs, cancel, active_connections,
                    published>>
    /\ UNCHANGED wfVars
    /\ UNCHANGED wsVars

\* lines 108-110: job = jobs.get(job_id)
RunGetJob(t) ==
    /\ run[t].pc = "get_job"
    /\ run' = [run EXCEPT ![t].pc = "orchestrate", ![t].job = (JobId \in jobs)]
    /\ response' = IF JobId \in jobs
                   THEN [response EXCEPT !.status = "dispatching"]
                   ELSE response
    /\ Note("status")
    /\ UNCHANGED <<jobs_repo, db, jobs, cancel, active_connections,
                    published>>
    /\ UNCHANGED wfVars
    /\ UNCHANGED wsVars

\* OrchestrationService.orchestrate up to asyncio.gather
Orchestrate(t) ==
    /\ run[t].pc = "orchestrate"
    /\ run' = [run EXCEPT ![t].pc = "gather",
                          ![t].teams = TeamsDict(run[t].include_teams),
                          ![t].tasks = [b \in Backends |->
                               IF b \in run[t].include_teams THEN "created"
                                                             ELSE "none"]]
    /\ Note("generation")
    /\ UNCHANGED <<jobs_repo, db, jobs, response, cancel, active_connections,
                    published>>
    /\ UNCHANGED wfVars
    /\ UNCHANGED wsVars

\* generate_with_*: status thinking and its status_change publish
TeamThinking(t, b) ==
    /\ run[t].pc = "gather"
    /\ run[t].tasks[b] = "created"
    /\ b = "google" => run[t].tasks["anthropic"] # "created"
    /\ \E failed \in SUBSET Registered(active_connections, JobId) :
          LET p == Publish(run[t], failed)
          IN  /\ active_connections' = p.connections
              /\ Published(t, b, <<StatusChange("thinking")>> \o ExceptEvents(p))
              /\ run' = [run EXCEPT
                    ![t].tasks[b] = IF p.raised THEN "done" ELSE "thinking",
                    ![t].teams[b] = TeamAfterPublish(generate_thinking(@), p)]
    /\ Note("generation")
    /\ UNCHANGED <<jobs_repo, db, jobs, response, cancel>>
    /\ UNCHANGED wfVars
    /\ UNCHANGED wsVars

\* generate_with_*: the two thoughts, status generating and its publish, up to
\* the await of the backend's complete()
TeamGenerating(t, b) ==
    /\ run[t].pc = "gather"
    /\ run[t].tasks[b] = "thinking"
    /\ \E failed \in SUBSET Registered(active_connections, JobId) :
          LET p == Publish(run[t], failed)
          IN  /\ active_connections' = p.connections
              /\ Published(t, b, <<StatusChange("generating")>> \o ExceptEvents(p))
              /\ run' = [run EXCEPT
                    ![t].tasks[b] = IF p.raised THEN "done" ELSE "generating",
                    ![t].teams[b] = IF p.raised
                        THEN generate_error([TeamOutput_add_thought(@,
                                 "Analyzing the brief") EXCEPT !.status = "generating"],
                                 "send failed")
                        ELSE generate_generating(@)]
    /\ Note("generation")
    /\ UNCHANGED <<jobs_repo, db, jobs, response, cancel>>
    /\ UNCHANGED wfVars
    /\ UNCHANGED wsVars

\* generate_with_*: complete() returned; the result, the publishes, the last
\* thought
TeamComplete(t, b) ==
    /\ run[t].pc = "gather"
    /\ run[t].tasks[b] = "generating"
    /\ \E code \in GenTexts, failed \in SUBSET Registered(active_connections, JobId) :
          LET p == Publish(run[t], failed)
          IN  /\ active_connections' = p.connections
              /\ Published(t, b, generate_complete_events \o ExceptEvents(p))
              /\ run' = [run EXCEPT
                    ![t].tasks[b] = "done",
                    ![t].teams[b] = IF p.raised
                        THEN generate_error(
                                 [@ EXCEPT !.generated_code = code,
                                           !.token_count = WordCount(code),
                                           !.status = "complete"], "send failed")
                        ELSE generate_complete(@, code)]
    /\ Note("generation")
    /\ UNCHANGED <<jobs_repo, db, jobs, response, cancel>>
    /\ UNCHANGED wfVars
    /\ UNCHANGED wsVars

\* generate_with_*: complete() raised; the except branch and its publish
TeamError(t, b) ==
    /\ run[t].pc = "gather"
    /\ run[t].tasks[b] = "generating"
    /\ \E e \in ErrTexts, failed \in SUBSET Registered(active_connections, JobId) :
          LET p == Publish(run[t], failed)
          IN  /\ active_connections' = p.connections
              /\ Published(t, b, <<ErrorEvent>>)
              /\ run' = [run EXCEPT
                    ![t].tasks[b] = "done",
                    ![t].teams[b] = IF p.raised
                        THEN [@ EXCEPT !.status = "error", !.error_message = e]
                        ELSE generate_error(@, e)]
    /\ Note("generation")
    /\ UNCHANGED <<jobs_repo, db, jobs, response, cancel>>
    /\ UNCHANGED wfVars
    /\ UNCHANGED wsVars

\* lines 136-191: the gather returned; the results are written through the
\* local reference `job`, whether or not jobs still holds the object
RunCollect(t) ==
    /\ run[t].pc = "gather"
    /\ \A b \in Backends : run[t].tasks[b] \in {"none", "done"}
    /\ response' = IF run[t].job
                   THEN [response EXCEPT
                            !.teams = [b \in Backends |->
                                IF run[t].teams[b] # NoneRecord THEN run[t].teams[b]
                                                                ELSE @[b]],
                            !.total_tokens = TotalTokens(run[t].teams),
                            !.status = FinalStatus(run[t].teams)]
                   ELSE response
    /\ run' = [run EXCEPT ![t].pc = IF jobs_repo THEN "persist" ELSE "done"]
    /\ late' = IF cancel.pc = "returned" /\ run[t].job
               THEN late \cup {"teams", "status"} ELSE late
    /\ UNCHANGED <<jobs_repo, db, jobs, cancel, active_connections,
                    published>>
    /\ UNCHANGED wfVars
    /\ UNCHANGED wsVars

\* lines 194-201: jobs_repo.update_job
RunPersist(t) ==
    /\ run[t].pc = "persist"
    /\ \E ok \in BOOLEAN :
          IF ok THEN /\ db' = update_job(db, FinalStatus(run[t].teams), run[t].teams,
                                         TotalTokens(run[t].teams))
                     /\ run' = [run EXCEPT ![t].pc = "done"]
                ELSE /\ db' = db
                     /\ run' = [run EXCEPT ![t].pc = "except", ![t].db_error = TRUE]
    /\ Note("teams")
    /\ UNCHANGED <<jobs_repo, jobs, response, cancel, active_connections,
                    published>>
    /\ UNCHANGED wfVars
    /\ UNCHANGED wsVars

\* lines 210-222: the except branch; a failure of its own database update is
\* logged and dropped
RunExcept(t) ==
    /\ run[t].pc = "except"
    /\ response' = IF JobId \in jobs THEN [response EXCEPT !.status = "error"]
                                     ELSE response
    /\ \E ok \in BOOLEAN :
          db' = IF jobs_repo /\ ok THEN update_job_status(db, "error") ELSE db
    /\ run' = [run EXCEPT ![t].pc = "done"]
    /\ Note("status")
    /\ UNCHANGED <<jobs_repo, jobs, cancel, active_connections,
                    published>>
    /\ UNCHANGED wfVars
    /\ UNCHANGED wsVars

\* websocket_orchestrate has not been called for a websocket
NoHandler == [pc |-> "none", job_id |-> None]

\* broadcast_to_job has not been called by a publisher
NoBroadcast ==
    [ pc           |-> "none",
      job_id       |-> None,
      connections  |-> <<>>,
      i            |-> 0,
      disconnected |-> <<>>,
      raised       |-> FALSE,
      start        |-> {},     \* history: the job's websockets at the call
      delivered    |-> <<>> ]  \* history: the websockets whose send returned

\* no websocket has connected and nothing is being broadcast
NoWebsockets ==
    /\ active_connections = NoConnections
    /\ handlers = [c \in Connections |-> NoHandler]
    /\ broadcasts = [q \in Publishers |-> NoBroadcast]

\* the websockets of `open` are connected for JobId, their handlers waiting in
\* receive_text
OpenWebsockets(open) ==
    /\ active_connections = Registry(open)
    /\ handlers = [c \in Connections |->
                      IF c \in open THEN [pc |-> "open", job_id |-> JobId]
                                    ELSE NoHandler]
    /\ broadcasts = [q \in Publishers |-> NoBroadcast]

\* a background task is between its first and its last statement
Executing(t) == run[t].pc \notin {"none", "queued", "done", "returned"}

Generating == \E t \in Tasks : run[t].pc = "gather"

\* cancel_job lines 426-433 (a failed delete is logged and dropped); without a
\* repository the handler runs to its return without an await
CancelJob ==
    /\ cancel.pc = "idle"
    /\ \E t \in Tasks : run[t].pc # "none"
    /\ IF jobs_repo
       THEN /\ \E ok \in BOOLEAN : db' = IF ok THEN delete_job(db) ELSE db
            /\ cancel' = [pc |-> "deleting", during_generation |-> Generating]
            /\ jobs' = jobs
       ELSE /\ db' = db
            /\ cancel' = [pc |-> IF JobId \in jobs THEN "returned" ELSE "not_found",
                          during_generation |-> Generating]
            /\ jobs' = jobs \ {JobId}
    /\ UNCHANGED <<jobs_repo, response, run, late, active_connections,
                    published>>
    /\ UNCHANGED wfVars
    /\ UNCHANGED wsVars

\* cancel_job lines 435-444, with a repository
CancelReturn ==
    /\ cancel.pc = "deleting"
    /\ jobs' = jobs \ {JobId}
    /\ cancel' = [cancel EXCEPT !.pc = "returned"]
    /\ UNCHANGED <<jobs_repo, db, response, run, late, active_connections,
                    published>>
    /\ UNCHANGED wfVars
    /\ UNCHANGED wsVars

\* trigger_generation: a job that is in jobs gets one more background task, for
\* the teams of the stored job (a job that is not gets 404)
TriggerGeneration ==
    /\ JobId \in jobs
    /\ \E t \in Tasks :
          /\ run[t].pc = "none"
          /\ \A u \in Tasks : u < t => run[u].pc # "none"
          /\ run' = [run EXCEPT ![t] = QueuedRun(
                        {b \in Backends : response.teams[b] # NoneRecord})]
    /\ UNCHANGED <<jobs_repo, db, jobs, response, cancel, late, active_connections,
                    published>>
    /\ UNCHANGED wfVars
    /\ UNCHANGED wsVars

\* OrchestrationService.orchestrate lines 297-301, for a direct caller
OrchestrateReturn(t) ==
    /\ run[t].pc = "gather"
    /\ \A b \in Backends : run[t].tasks[b] \in {"none", "done"}
    /\ run' = [run EXCEPT ![t].pc = "returned"]
    /\ UNCHANGED <<jobs_repo, db, jobs, response, cancel, late, active_connections,
                    published>>
    /\ UNCHANGED wfVars
    /\ UNCHANGED wsVars

----------------------------------------------------------------------------
(* Specification of one job of the API: the state after submit_brief has    *)
(* stored the job and queued the background task.                           *)

NoWorkflow ==
    /\ state = create_initial_state(0, FALSE, FALSE)
    /\ pc = "END"
    /\ tasks = NoTasks
    /\ results = NoResults
    /\ visited = <<>>
    /\ entry = state

InitApi ==
    /\ NoWorkflow
    /\ jobs_repo \in BOOLEAN
    /\ \E include_teams \in SUBSET Backends :
          /\ response = OrchestrationResponse(include_teams)
          /\ db \in IF jobs_repo
                    THEN {create_job(TeamsDict(include_teams)), NoneRecord}
                    ELSE {NoneRecord}
          /\ run = [NoRuns EXCEPT ![1] = QueuedRun(include_teams)]
    /\ jobs = {JobId}
    /\ cancel = NoCancel
    /\ late = {}
    /\ \E open \in SUBSET Connections : OpenWebsockets(open)
    /\ published = NoEvents

RunStep(t) ==
    \/ RunDispatching(t)
    \/ RunGetJob(t)
    \/ Orchestrate(t)
    \/ \E b \in Backends : TeamThinking(t, b)
    \/ \E b \in Backends : TeamGenerating(t, b)
    \/ \E b \in Backends : TeamComplete(t, b)
    \/ \E b \in Backends : TeamError(t, b)
    \/ RunCollect(t)
    \/ RunPersist(t)
    \/ RunExcept(t)

NextApi ==
    \/ \E t \in Tasks : RunStep(t)
    \/ CancelJob
    \/ CancelReturn

SpecApi == InitApi /\ [][NextApi]_vars

\* The same job with trigger_generation requests; no cancel request.
NextTrigger ==
    \/ \E t \in Tasks : RunStep(t)
    \/ TriggerGeneration

SpecTrigger == InitApi /\ [][NextTrigger]_vars

\* OrchestrationService.orchestrate called directly, with or without an
\* event_callback.
InitService ==
    /\ NoWorkflow
    /\ jobs_repo = FALSE
    /\ db = NoneRecord
    /\ jobs = {}
    /\ response = NoneRecord
    /\ \E include_teams \in SUBSET Backends, event_callback \in BOOLEAN :
          run = [NoRuns EXCEPT ![1] = [NoRun EXCEPT
                    !.pc = "orchestrate",
                    !.include_teams = include_teams,
                    !.event_callback = event_callback]]
    /\ cancel = NoCancel
    /\ late = {}
    /\ \E open \in SUBSET Connections : OpenWebsockets(open)
    /\ published = NoEvents

NextService ==
    \/ \E t \in Tasks : Orchestrate(t)
    \/ \E t \in Tasks, b \in Backends : TeamThinking(t, b)
    \/ \E t \in Tasks, b \in Backends : TeamGenerating(t, b)
    \/ \E t \in Tasks, b \in Backends : TeamComplete(t, b)
    \/ \E t \in Tasks, b \in Backends : TeamError(t, b)
    \/ \E t \in Tasks : OrchestrateReturn(t)

SpecService == InitService /\ [][NextService]_vars

----------------------------------------------------------------------------
(* Specification of one workflow run: OrchestrationWorkflow.run builds the  *)
(* initial state from the configuration and enters the graph at "plan".     *)

Init ==
    /\ \E max_iter \in 0..MaxRefinementIterations, enable_review \in BOOLEAN,
          parallel_generation \in BOOLEAN :
          state = create_initial_state(max_iter, enable_review, parallel_generation)
    /\ pc = "plan"
    /\ tasks = NoTasks
    /\ results = NoResults
    /\ visited = <<>>
    /\ entry = state
    /\ jobs_repo = FALSE
    /\ db = NoneRecord
    /\ jobs = {}
    /\ response = NoneRecord
    /\ run = NoRuns
    /\ cancel = NoCancel
    /\ late = {}
    /\ NoWebsockets
    /\ published = NoEvents

Next ==
    \/ PlanStart
    \/ PlanReturn
    \/ PlanExcept
    \/ RouteAfterPlan
    \/ GenerateStart
    \/ \E b \in Backends : GenBegin(b)
    \/ \E b \in Backends : GenReturn(b)
    \/ \E b \in Backends : GenExcept(b)
    \/ RouteAfterGenerate
    \/ ReviewStart
    \/ \E b \in Backends : ReviewBegin(b)
    \/ \E b \in Backends : ReviewReturn(b)
    \/ \E b \in Backends : ReviewExcept(b)
    \/ ReviewEnd
    \/ RouteAfterReview
    \/ RefineStart
    \/ \E b \in Backends : RefineBegin(b)
    \/ \E b \in Backends : RefineReturn(b)
    \/ \E b \in Backends : RefineExcept(b)
    \/ RefineEnd
    \/ RouteAfterRefine
    \/ CompleteNode
    \/ ErrorNode

Spec == Init /\ [][Next]_vars

\* The driver takes a step whenever one is possible, and every backend call
\* that was started eventually returns or raises.
SpecFair == Spec /\ WF_vars(Next)

----------------------------------------------------------------------------
(* Plan mode: the clarify stage ahead of the graph.  clarify_node and the    *)
(* repository calls are the code's; the driver that runs the clarify stage,  *)
(* stops at awaiting_answers and resumes at plan follows the workflow        *)
(* driver's description (suspend points), which no file of the code holds.   *)
(* From plan on the run is the compiled graph of _build_graph.               *)

\* largest max_refinement_iterations of a plan-mode run
PlanModeMaxIterations == 1

ClarifyStart ==
    /\ pc = "clarify"
    /\ IF state.skip_clarification
       THEN /\ state' = clarify_node_skip(Forget(state))
            /\ pc' = "clarify_done"
       ELSE /\ state' = clarify_node_begin(Forget(state))
            /\ pc' = "clarify_await"
    /\ EnterNode("clarify")
    /\ UNCHANGED <<tasks, results>>
    /\ UNCHANGED apiVars

ClarifyReturn ==
    /\ pc = "clarify_await"
    /\ \E answer \in ClarifyResponses :
          /\ state' = clarify_node_parse(state, answer)
          /\ results' = [results EXCEPT !["anthropic"] = answer]
    /\ pc' = "clarify_done"
    /\ UNCHANGED <<tasks, visited, entry>>
    /\ UNCHANGED apiVars

ClarifyExcept ==
    /\ pc = "clarify_await"
    /\ \E e \in ErrTexts : state' = clarify_node_except(state, e)
    /\ pc' = "clarify_done"
    /\ UNCHANGED <<tasks, results, visited, entry>>
    /\ UNCHANGED apiVars

\* the driver after the clarify stage: error, suspend at awaiting_answers
\* (storing the questions on the job), or go on to plan
AfterClarify ==
    /\ pc = "clarify_done"
    /\ IF state.status = "error"
       THEN pc' = "error" /\ db' = db
       ELSE IF state.status = "awaiting_answers"
       THEN /\ pc' = "awaiting_answers"
            /\ db' = update_clarifying_questions(db, state.clarifying_questions)
       ELSE pc' = "plan" /\ db' = db
    /\ results' = NoResults
    /\ UNCHANGED <<state, tasks, visited, entry>>
    /\ UNCHANGED <<jobs_repo, jobs, response, run, cancel, late, active_connections,
                    published>>
    /\ UNCHANGED wsVars

\* the external call that supplies answers: the repository records them and the
\* driver re-enters the workflow at plan
SubmitAnswers ==
    /\ pc = "awaiting_answers"
    /\ \E answers \in SUBSET Range(state.clarifying_questions) :
          /\ db' = submit_clarifying_answers(db, answers)
          /\ state' = [state EXCEPT !.clarifying_answers = answers,
                                    !.status = "planning"]
    /\ pc' = "plan"
    /\ UNCHANGED <<tasks, results, visited, entry>>
    /\ UNCHANGED <<jobs_repo, jobs, response, run, cancel, late, active_connections,
                    published>>
    /\ UNCHANGED wsVars

InitPlanMode ==
    /\ \E max_iter \in 0..PlanModeMaxIterations, enable_review \in BOOLEAN,
          parallel_generation \in BOOLEAN, skip_clarification \in BOOLEAN :
          state = [create_initial_state(max_iter, enable_review, parallel_generation)
                      EXCEPT !.skip_clarification = skip_clarification]
    /\ pc = "clarify"
    /\ tasks = NoTasks
    /\ results = NoResults
    /\ visited = <<>>
    /\ entry = state
    /\ jobs_repo = TRUE
    /\ db = create_job(TeamsDict(Backends))
    /\ jobs = {}
    /\ response = NoneRecord
    /\ run = NoRuns
    /\ cancel = NoCancel
    /\ late = {}
    /\ NoWebsockets
    /\ published = NoEvents

NextPlanMode ==
    \/ ClarifyStart
    \/ ClarifyReturn
    \/ ClarifyExcept
    \/ AfterClarify
    \/ SubmitAnswers
    \/ Next

SpecPlanMode == InitPlanMode /\ [][NextPlanMode]_vars

----------------------------------------------------------------------------
(* Properties of the workflow run *)

Other(b) == IF b = "anthropic" THEN "google" ELSE "anthropic"

\* the generate node and its router have run, and the next node has not begun
GenerateRouted ==
    /\ visited # <<>>
    /\ Last(visited) = "generate"
    /\ pc # "generate_await"

\* the backend's generation call raised / returned
CallFailed(b) == OutputOf(state, b) # NoneRecord /\ OutputOf(state, b).error # None
CallSucceeded(b) == OutputOf(state, b) # NoneRecord /\ OutputOf(state, b).error = None

\* the thoughts a step appended to the list
NoThoughtAppended ==
    IF visited' # visited THEN state'.thoughts = <<>>
                          ELSE state'.thoughts = state.thoughts

\* C1: refinement_iteration never decreases from one state of a run to the
\* next, and in every reachable state
\* 0 <= refinement_iteration <= max_refinement_iterations.
C1_RefinementIterationBounded ==
    /\ [](/\ 0 <= state.refinement_iteration
          /\ state.refinement_iteration <= state.max_refinement_iterations)
    /\ [][state'.refinement_iteration >= state.refinement_iteration]_vars

\* a refine pass has just brought the counter to a cap of at least 2
C1_Witness ==
    /\ pc = "refine_done"
    /\ state.max_refinement_iterations >= 2
    /\ state.refinement_iteration = state.max_refinement_iterations

\* C2 as stated: after the generate node and its router, all calls failed
\* implies status error with a non-empty error_message, and one call that
\* returned without failure implies the run is not routed to error.
C2_Original ==
    GenerateRouted =>
        /\ (\A b \in Backends : CallFailed(b)) =>
                state.status = "error" /\ Truthy(state.error_message)
        /\ (\E b \in Backends : CallSucceeded(b)) => pc # "error"

\* C2 amended: after the generate node and its router, all calls failed
\* implies status error with a non-empty error_message, and one call that
\* returned non-empty code implies the run is not routed to error.
C2_GenerateOutcome ==
    GenerateRouted =>
        /\ (\A b \in Backends : CallFailed(b)) =>
                state.status = "error" /\ Truthy(state.error_message)
        /\ (\E b \in Backends : CallSucceeded(b) /\ OutputOf(state, b).code # "") =>
                pc # "error" /\ state.status # "error"

\* one call raised, the other returned code, and the router chose review
C2_Witness ==
    /\ GenerateRouted
    /\ CallFailed("anthropic")
    /\ CallSucceeded("google") /\ state.google_output.code # ""
    /\ pc = "review"

\* C3: with enable_review false both reviews stay None, the review and refine
\* nodes are never executed, and a run whose generation produced a usable
\* output goes from the generate node directly to the complete node.
C3_ReviewDisabled ==
    ~state.enable_review =>
        /\ state.anthropic_review = NoneRecord
        /\ state.google_review = NoneRecord
        /\ "review" \notin Range(visited)
        /\ "refine" \notin Range(visited)
        /\ (GenerateRouted /\ \E b \in Backends : OutputOk(OutputOf(state, b)))
                => pc = "complete"
        /\ "complete" \in Range(visited)
                => visited = <<"plan", "generate", "complete">>

\* a run with review disabled has completed
C3_Witness ==
    /\ ~state.enable_review
    /\ pc = "END"
    /\ state.status = "complete"
    /\ OutputOk(state.anthropic_output)

\* C4: in every reachable state, status error implies a non-empty
\* error_message.
C4_ErrorHasMessage ==
    state.status = "error" => Truthy(state.error_message)

\* the after-generate router has put the run into error
C4_Witness ==
    /\ state.status = "error"
    /\ GenerateRouted
    /\ state.current_phase = "generating"

\* C5 as stated: once status is complete or error, no step changes any field
\* of the state.
C5_Original ==
    [][state.status \in {"complete", "error"} =>
            NoThoughtAppended /\ Forget(state') = Forget(state)]_vars

\* C5 amended: once status is complete no step changes any field; once status
\* is error the only field a later step changes is current_phase, which the
\* error node sets to "error".
C5_TerminalFrame ==
    [][/\ state.status = "complete" =>
            NoThoughtAppended /\ Forget(state') = Forget(state)
       /\ state.status = "error" =>
            /\ NoThoughtAppended
            /\ Forget(state') = [Forget(state) EXCEPT
                                    !.current_phase = state'.current_phase]
            /\ state'.current_phase \in {state.current_phase, "error"}]_vars

\* the error node has run on a state a node had already put into error
C5_Witness ==
    /\ pc = "END"
    /\ entry.status = "error"
    /\ entry.current_phase = "planning"
    /\ state.current_phase = "error"
    /\ state.error_message = entry.error_message

\* C6 as stated: the generate node is not executed while plan_approved is
\* false (the driver stops at awaiting_approval until an approval).
C6_Claim ==
    "generate" \in Range(visited) => state.plan_approved

\* a backend flagged by the review that preceded the refine pass, alone
FlaggedOnly(b) ==
    /\ RefineFlagged(state, b)
    /\ ~RefineFlagged(state, Other(b))

\* C8 as stated: with max_refinement_iterations = 1 and a first review that
\* flags exactly one backend, the refine node runs once and a second review
\* pass runs before the run completes.
C8_Original ==
    (/\ state.max_refinement_iterations = 1
     /\ pc = "END"
     /\ "refine" \in Range(visited)
     /\ \E b \in Backends : FlaggedOnly(b))
        => /\ Count(visited, "refine") = 1
           /\ Count(visited, "review") = 2
           /\ state.status = "complete"

\* C8 amended: with max_refinement_iterations = 1 and a first review that
\* flags exactly one backend X, the refine node runs exactly once, it leaves
\* the other backend's output and every field of X's output but code and
\* token_count as they were, and the run then goes from refine directly to
\* complete: no second review pass runs.
C8_SingleRefinePass ==
    \A b \in Backends :
        (state.max_refinement_iterations = 1 /\ FlaggedOnly(b)) =>
            /\ Count(visited, "refine") <= 1
            /\ Last(visited) = "refine" =>
                  /\ OutputOf(state, Other(b)) = OutputOf(entry, Other(b))
                  /\ OutputOf(state, b).error = OutputOf(entry, b).error
            /\ (pc = "END" /\ "refine" \in Range(visited)) =>
                  /\ visited = <<"plan", "generate", "review", "refine", "complete">>
                  /\ state.status = "complete"

\* the single refine pass rewrote anthropic's code only, and the run completed
C8_Witness ==
    /\ state.max_refinement_iterations = 1
    /\ FlaggedOnly("anthropic")
    /\ pc = "END"
    /\ state.anthropic_output.code = "ref"
    /\ state.google_output.code = "gen"
    /\ Count(visited, "refine") = 1

\* C10: assuming every backend call eventually returns or fails, every run
\* eventually executes the complete node or the error node and stops; the
\* number of node executions is bounded by the configured cap, so the
\* review/refine loop cannot run forever.
C10_Terminates ==
    /\ [](/\ Len(visited) <= 4 + 2 * state.max_refinement_iterations
          /\ Count(visited, "refine") <= state.max_refinement_iterations
          /\ pc = "END" => Last(visited) \in {"complete", "error"})
    /\ <>[](pc = "END")

\* a run that went through as many refine passes as the cap allows has ended
C10_Witness ==
    /\ pc = "END"
    /\ state.max_refinement_iterations >= 2
    /\ Count(visited, "refine") = state.max_refinement_iterations
    /\ Last(visited) = "complete"

----------------------------------------------------------------------------
(* Properties of the API job *)

\* cancel_job returned for a request made while the teams were generating
CancelledMidGeneration == cancel.pc = "returned" /\ cancel.during_generation

\* C9 as stated: once cancel has returned for a job whose generation was in
\* progress, the background task performs no further generation step, status
\* update or teams update, the job reads as cancelled or terminal, and its
\* record is still readable.
C9_Claim ==
    CancelledMidGeneration =>
        /\ late = {}
        /\ get_job_status # "404"
        /\ get_job_status \in {"cancelled", "complete", "error"}

----------------------------------------------------------------------------
(* Properties of plan mode *)

\* C7 as stated: when clarification produced at least one question the job
\* suspends at awaiting_answers and the plan node runs only after answers were
\* submitted; submitting answers sets the status to planning, the plan node
\* runs, and the job then suspends at awaiting_approval (the generate node does
\* not run before an approval).
C7_Claim ==
    Len(state.clarifying_questions) > 0 =>
        /\ pc = "awaiting_answers" =>
              state.status = "awaiting_answers" /\ get_job_status = "awaiting_answers"
        /\ "plan" \in Range(visited) => get_job_status = "planning"
        /\ pc = "plan" => state.status = "planning"
        /\ "generate" \in Range(visited) => state.plan_approved

\* a job created with the questions and answers of the job's record present
\* from the start
FreshJob ==
    [create_initial_state(state.max_refinement_iterations, state.enable_review,
                          state.parallel_generation)
        EXCEPT !.clarifying_questions = db.clarifying_questions,
               !.clarifying_answers = db.clarifying_answers]

----------------------------------------------------------------------------
(* Properties of the background tasks and of the teams *)

\* C12 as stated: at most one background task of the job is executing at any
\* time, whatever submit_brief and trigger_generation requests were made.
C12_Claim ==
    Cardinality({t \in Tasks : Executing(t)}) <= 1

\* a team of the task completed with code
CompletedWithCode(t) ==
    \E b \in Backends :
        /\ run[t].teams[b] # NoneRecord
        /\ run[t].teams[b].status = "complete"
        /\ Truthy(run[t].teams[b].generated_code)

\* C13 as stated: when several teams are included and at least one of them
\* completed with code, the final status the task gives the job is not error.
C13_Claim ==
    \A t \in Tasks :
        (/\ run[t].pc \in {"persist", "done"}
         /\ run[t].job
         /\ ~run[t].db_error
         /\ Cardinality(run[t].include_teams) >= 2
         /\ CompletedWithCode(t))
            => response.status # "error"

\* C14 as stated: when a write to the jobs table raised inside the task, the
\* generation has still run, and the in-memory job holds the team outputs and
\* the final status the generation results determine.
C14_Claim ==
    \A t \in Tasks :
        (run[t].pc = "done" /\ run[t].db_error /\ JobId \in jobs) =>
            /\ \A b \in run[t].include_teams :
                  /\ run[t].teams[b] # NoneRecord
                  /\ response.teams[b] = run[t].teams[b]
            /\ response.status = FinalStatus(run[t].teams)

\* what a team's output is after a generation whose backend call returned
\* `code` / raised e, with nothing else taken into account
ExpectedComplete(b, code) ==
    generate_complete(generate_generating(generate_thinking(TeamOutput(b))), code)

ExpectedError(b, e) ==
    generate_error(generate_generating(generate_thinking(TeamOutput(b))), e)

\* C15: a team's final status, generated_code, token_count, error_message and
\* thought texts are determined by the outcome of its backend call alone: they
\* are the same with event_callback absent or supplied, whatever sends of the
\* publishes failed.
C15_CallbackIndependent ==
    \A t \in Tasks, b \in Backends :
        run[t].tasks[b] = "done" =>
            \/ \E code \in GenTexts : run[t].teams[b] = ExpectedComplete(b, code)
            \/ \E e \in ErrTexts : run[t].teams[b] = ExpectedError(b, e)

\* orchestrate returned with a callback supplied and no client left connected
\* (none connected, or each dropped on a failed send): one team completed, the
\* other failed
C15_Witness ==
    /\ run[1].pc = "returned"
    /\ run[1].event_callback
    /\ active_connections = NoConnections
    /\ run[1].teams["anthropic"] = ExpectedComplete("anthropic", "gen")
    /\ run[1].teams["google"] = ExpectedError("google", "boom")

\* C37: when orchestrate has returned, the teams dict has exactly the included
\* teams; each has status complete or error; a complete team has its
\* generated_code set and no error_message, an error team has its
\* error_message set.
C37_FinalStatus ==
    \A t \in Tasks :
        run[t].pc = "returned" =>
            \A b \in Backends :
                LET team == run[t].teams[b]
                IN  /\ team # NoneRecord <=> b \in run[t].include_teams
                    /\ team # NoneRecord =>
                          /\ team.status \in {"complete", "error"}
                          /\ team.status = "complete" =>
                                /\ team.generated_code # None
                                /\ team.error_message = None
                          /\ team.status = "error" => team.error_message # None

\* orchestrate returned for both teams: anthropic's call returned empty text,
\* google's raised an exception with an empty message
C37_Witness ==
    /\ run[1].pc = "returned"
    /\ run[1].include_teams = Backends
    /\ run[1].teams["anthropic"].status = "complete"
    /\ run[1].teams["anthropic"].generated_code = ""
    /\ run[1].teams["google"].status = "error"
    /\ run[1].teams["google"].error_message = ""

\* the two orders in which a team's awaited events can be published in full
CompleteEvents ==
    <<StatusChange("thinking"), StatusChange("generating"),
      StatusChange("complete"), CodeGenerated>>

ErrorEvents == <<StatusChange("thinking"), StatusChange("generating"), ErrorEvent>>

\* the order of the statuses of a team
StatusRank(status) ==
    CASE status = "pending" -> 0
      [] status = "thinking" -> 1
      [] status = "generating" -> 2
      [] status \in {"complete", "error"} -> 3

\* C38: the events a team has published so far during an orchestrate call are
\* an initial part of status_change thinking, status_change generating and
\* then either status_change complete, code_generated or the error event, and
\* all of one of the two once the team is done; so no status_change follows
\* the complete status_change or the error event.  The status of a team never
\* moves backwards.
C38_EventOrder ==
    /\ [](\A t \in Tasks, b \in Backends :
            /\ \/ IsPrefix(published[t][b], CompleteEvents)
               \/ IsPrefix(published[t][b], ErrorEvents)
            /\ (run[t].tasks[b] = "done" /\ run[t].event_callback) =>
                  published[t][b] \in {CompleteEvents, ErrorEvents})
    /\ [][\A t \in Tasks, b \in Backends :
            (run[t].teams[b] # NoneRecord /\ run'[t].teams[b] # NoneRecord) =>
                StatusRank(run'[t].teams[b].status)
                    >= StatusRank(run[t].teams[b].status)]_vars

\* orchestrate returned: anthropic published its four events, google its
\* three ending with the error event
C38_Witness ==
    /\ run[1].pc = "returned"
    /\ published[1]["anthropic"] = CompleteEvents
    /\ published[1]["google"] = ErrorEvents

----------------------------------------------------------------------------
(* The routers called on their own: a router is applied, once or twice in a *)
(* row, to a state dict as the nodes can leave it.  visited records the     *)
(* names returned, entry the dict before the first call, pc the router.     *)

\* largest max_refinement_iterations of the state dicts the routers are given
RouterMaxIterations == 1

\* largest number of consecutive calls of one router on the same state dict
MaxRouterCalls == 2

\* status values the nodes in front of the routers leave
NodeStatuses == {"awaiting_approval", "generating", "reviewing", "refining", "error"}

\* error_message values a node's except branch leaves
NodeErrorMessages == {"Planning failed: " \o e : e \in ErrTexts}

\* the values generate_node leaves in anthropic_output / google_output
GenerateOutputs ==
    {NoneRecord} \cup {CodeOutput(code, None) : code \in GenTexts}
                 \cup {CodeOutput("", e) : e \in ErrTexts}

RouterStates ==
    { [create_initial_state(m, er, TRUE) EXCEPT
          !.status = st,
          !.error_message = IF st = "error" THEN msg ELSE None,
          !.plan = plan,
          !.anthropic_output = a,
          !.google_output = g,
          !.needs_refinement = nr,
          !.refinement_iteration = IF i <= m THEN i ELSE m] :
        st \in NodeStatuses, msg \in NodeErrorMessages,
        plan \in {None} \cup PlanTexts,
        a \in GenerateOutputs, g \in GenerateOutputs,
        nr \in BOOLEAN, er \in BOOLEAN,
        m \in 0..RouterMaxIterations, i \in 0..RouterMaxIterations }

InitRouters ==
    /\ state \in RouterStates
    /\ entry = state
    /\ pc = "routers"
    /\ visited = <<>>
    /\ tasks = NoTasks
    /\ results = NoResults
    /\ jobs_repo = FALSE
    /\ db = NoneRecord
    /\ jobs = {}
    /\ response = NoneRecord
    /\ run = NoRuns
    /\ cancel = NoCancel
    /\ late = {}
    /\ NoWebsockets
    /\ published = NoEvents

CallRouter(name, r) ==
    /\ pc \in {"routers", name}
    /\ Len(visited) < MaxRouterCalls
    /\ state' = r.state
    /\ visited' = Append(visited, r.next)
    /\ pc' = name
    /\ UNCHANGED <<tasks, results, entry>>
    /\ UNCHANGED apiVars

CallAfterPlan == CallRouter("after_plan", should_proceed_after_plan(state))

CallAfterGenerate == CallRouter("after_generate", should_proceed_after_generate(state))

CallAfterReview == CallRouter("after_review", should_proceed_after_review(state))

CallAfterRefine == CallRouter("after_refine", should_proceed_after_refine(state))

NextRouters ==
    \/ CallAfterPlan
    \/ CallAfterGenerate
    \/ CallAfterReview
    \/ CallAfterRefine

SpecRouters == InitRouters /\ [][NextRouters]_vars

Called == pc # "routers" /\ Len(visited) >= 1

\* C16: a router called on a state whose status is already error returns
\* error and leaves status and error_message exactly as they were set.
C16_ErrorPreserved ==
    (Called /\ entry.status = "error") =>
        /\ \A i \in 1..Len(visited) : visited[i] = "error"
        /\ state.status = "error"
        /\ state.error_message = entry.error_message

\* the after-plan router called on an error state whose plan is empty
C16_Witness ==
    /\ pc = "after_plan" /\ Len(visited) = 1
    /\ entry.status = "error" /\ entry.plan = None
    /\ entry.error_message = "Planning failed: boom"

\* C17: a router called twice in a row, with no node run in between, returns
\* the same next-stage name both times.
C17_Idempotent ==
    (Called /\ Len(visited) >= 2) =>
        \A i \in 2..Len(visited) : visited[i] = visited[1]

\* the after-plan router called twice on a state with an empty plan: the first
\* call takes the empty-plan branch, the second the status branch
C17_Witness ==
    /\ pc = "after_plan" /\ Len(visited) = 2
    /\ entry.status = "awaiting_approval" /\ entry.plan = ""
    /\ visited = <<"error", "error">>

Usable(o) == o # NoneRecord /\ o.code # None /\ o.code # "" /\ o.error = None

\* C19: on a state whose status is not error the after-generate router
\* returns error exactly when neither output is usable, and otherwise review
\* if enable_review is set and complete if not.
C19_AfterGenerate ==
    (pc = "after_generate" /\ Called /\ entry.status # "error") =>
        visited[1] =
            IF ~Usable(entry.anthropic_output) /\ ~Usable(entry.google_output)
            THEN "error"
            ELSE IF entry.enable_review THEN "review" ELSE "complete"

\* only google's output is usable and review is disabled
C19_Witness ==
    /\ pc = "after_generate" /\ Len(visited) = 1
    /\ entry.status = "generating" /\ ~entry.enable_review
    /\ entry.anthropic_output = CodeOutput("", "boom")
    /\ entry.google_output = CodeOutput("gen", None)
    /\ visited[1] = "complete"

\* C20: on a state whose status is not error the after-review router returns
\* complete when needs_refinement is false or refinement_iteration has
\* reached max_refinement_iterations, and refine otherwise.
C20_AfterReview ==
    (pc = "after_review" /\ Called /\ entry.status # "error") =>
        visited[1] =
            IF ~entry.needs_refinement
               \/ entry.refinement_iteration >= entry.max_refinement_iterations
            THEN "complete"
            ELSE "refine"

\* refinement is needed but the iteration cap has been reached
C20_Witness ==
    /\ pc = "after_review" /\ Len(visited) = 1
    /\ entry.status = "reviewing" /\ entry.needs_refinement
    /\ entry.max_refinement_iterations = 1 /\ entry.refinement_iteration = 1
    /\ visited[1] = "complete"

----------------------------------------------------------------------------
(* Properties of the nodes within a workflow run *)

\* C21: when the refine node has returned with a status other than error, the
\* driver goes to complete if refinement_iteration >= max_refinement_iterations
\* and back to review otherwise; a run whose refine passes reached the cap has
\* had no review after its last refine pass.
C21_AfterRefine ==
    /\ [][(pc = "refine_done" /\ state.status # "error") =>
            pc' = IF state.refinement_iteration >= state.max_refinement_iterations
                  THEN "complete" ELSE "review"]_vars
    /\ []((/\ Count(visited, "refine") >= 1
            /\ Count(visited, "refine") = state.max_refinement_iterations) =>
               Count(visited, "review") = state.max_refinement_iterations)

\* the second refine pass of a run capped at 2 is followed by complete
C21_Witness ==
    /\ pc = "complete"
    /\ Last(visited) = "refine"
    /\ state.max_refinement_iterations = 2
    /\ state.refinement_iteration = 2
    /\ Count(visited, "review") = 2

\* a review call was issued for the backend in the node that is running or
\* has just returned
ReviewCalled(b) ==
    ThoughtItem("Reviewing " \o b \o " output", "reviewer") \in Range(state.thoughts)

\* C22: in every reachable state needs_refinement implies that a stored review
\* has has_issues true; when the review node has returned with review
\* enabled, needs_refinement is the OR of has_issues over the backends it
\* reviewed.
C22_NeedsRefinement ==
    /\ state.needs_refinement =>
          \E b \in Backends :
              ReviewOf(state, b) # NoneRecord /\ ReviewOf(state, b).has_issues
    /\ (pc = "review_done" /\ state.enable_review) =>
          /\ \E b \in Backends : ReviewCalled(b)
          /\ \A b \in Backends : ReviewCalled(b) => ReviewOf(state, b) # NoneRecord
          /\ state.needs_refinement =
                (\E b \in Backends : ReviewCalled(b) /\ ReviewOf(state, b).has_issues)

\* both backends were reviewed and only anthropic's review has issues
C22_Witness ==
    /\ pc = "review_done"
    /\ state.enable_review
    /\ ReviewCalled("anthropic") /\ ReviewCalled("google")
    /\ state.anthropic_review.has_issues
    /\ ~state.google_review.has_issues
    /\ state.needs_refinement

\* C23 as stated: for a backend whose output has a non-null error no review
\* call and no refine call is issued, its review stays None, and its output
\* stays as the generation left it (code empty, error set).
C23_Claim ==
    \A b \in Backends :
        CallFailed(b) =>
            /\ pc \in {"review_await", "refine_await"} => tasks[b] = "none"
            /\ ReviewOf(state, b) = NoneRecord
            /\ OutputOf(state, b).code = ""

\* C24: the thoughts list is append-only.  state.thoughts holds the items
\* appended since the running node began, so for every step inside a node,
\* the interleaved steps of the gathered backend tasks included, the list
\* before the step is a prefix of the list after it; the step that enters a
\* node only appends to the list it found.
C24_AppendOnly ==
    [][IF visited' = visited
       THEN IsPrefix(state.thoughts, state'.thoughts)
       ELSE IsPrefix(Forget(state).thoughts, state'.thoughts)]_vars

\* google's generation task appended between two appends of anthropic's task
C24_Witness ==
    /\ pc = "generate_await"
    /\ state.parallel_generation
    /\ Len(state.thoughts) = 4
    /\ state.thoughts[2].source = "anthropic"
    /\ state.thoughts[3].source = "google"
    /\ state.thoughts[4].source = "anthropic"

\* the run was created by a workflow whose config is the named preset
ConfiguredWith(name) ==
    state = [state EXCEPT
        !.max_refinement_iterations = get_config_by_name(name).max_refinement_iterations,
        !.enable_review = get_config_by_name(name).enable_review,
        !.parallel_generation = get_config_by_name(name).parallel_generation]

\* the most refine passes the claim allows a run under the named preset
PresetRefineCap(name) ==
    CASE name \in {"fast", "debug"} -> 0
      [] name \in {"balanced", "sequential"} -> 1
      [] name = "thorough" -> 2

\* C26: a run configured with a named preset executes the review node only if
\* the preset enables review, and the refine node at most the preset's
\* max_refinement_iterations times: never under fast and debug, at most once
\* under balanced and sequential, at most twice under thorough.
C26_Presets ==
    \A name \in PresetNames :
        ConfiguredWith(name) =>
            /\ "review" \in Range(visited) => get_config_by_name(name).enable_review
            /\ Count(visited, "refine") <=
                    get_config_by_name(name).max_refinement_iterations
            /\ Count(visited, "refine") <= PresetRefineCap(name)

\* a run under the thorough preset ended after two refine passes
C26_Witness ==
    /\ ConfiguredWith("thorough")
    /\ pc = "END"
    /\ Count(visited, "refine") = 2
    /\ Count(visited, "review") = 2

\* the fields of the state other than the outputs are as the generate node
\* found them, but for the status and phase it sets on entry and the thoughts
GenerateFrame ==
    [state EXCEPT !.anthropic_output = entry.anthropic_output,
                  !.google_output = entry.google_output,
                  !.status = entry.status,
                  !.current_phase = entry.current_phase,
                  !.thoughts = <<>>] = entry

\* C27: in the generate node, in parallel and in sequential mode, a backend
\* call that failed has set only that backend's output (code empty, error
\* set) and appended an error thought attributed to that backend; the other
\* backend's call is still started and its result stored, and the node does
\* not set status to error.
C27_GenerateIsolation ==
    \A b \in Backends :
        (pc = "generate_await" /\ tasks[b] = "done" /\ CallFailed(b)) =>
            /\ OutputOf(state, b) = CodeOutput("", OutputOf(state, b).error)
            /\ ThoughtItem(b \o " generation error: " \o OutputOf(state, b).error, b)
                    \in Range(state.thoughts)
            /\ state.status = "generating"
            /\ GenerateFrame
            /\ tasks[Other(b)] \in {"created", "running", "done"}
            /\ tasks[Other(b)] = "done" =>
                  /\ OutputOf(state, Other(b)) # NoneRecord
                  /\ CallSucceeded(Other(b)) =>
                        ThoughtItem(Other(b) \o " team generated code", Other(b))
                            \in Range(state.thoughts)

\* sequential mode: anthropic's call failed, google's was then made and
\* returned code
C27_Witness ==
    /\ pc = "generate_await"
    /\ ~state.parallel_generation
    /\ tasks = [b \in Backends |-> "done"]
    /\ state.anthropic_output = CodeOutput("", "boom")
    /\ state.google_output = CodeOutput("gen", None)

\* the verdict thought _review_code appends when its call returned and parsed
ReviewVerdict(b, has_issues) ==
    review_code_return(Forget(state), b, ParsedReview(has_issues)).thoughts[1]

\* the backend's review call was issued and ended in _review_code's except
\* branch: no verdict thought was appended
ReviewFailed(b) ==
    /\ ReviewCalled(b)
    /\ \A has_issues \in BOOLEAN : ReviewVerdict(b, has_issues) \notin Range(state.thoughts)

\* C28: when the review node has returned and one backend's review call had
\* failed or its answer did not parse, that backend's review is the permissive
\* default (has_issues false, no issues, confidence 0.5), the other backend's
\* review is the verdict its own call returned, and status is not error.
C28_ReviewIsolation ==
    \A b \in Backends :
        (pc = "review_done" /\ state.enable_review /\ ReviewFailed(b)) =>
            /\ ReviewOf(state, b) = ReviewResult(FALSE, 0, 5)
            /\ state.status = "reviewing"
            /\ \A has_issues \in BOOLEAN :
                  ReviewVerdict(Other(b), has_issues) \in Range(state.thoughts) =>
                      ReviewOf(state, Other(b)) = ParsedReview(has_issues)

\* anthropic's review call failed and google's review found issues
C28_Witness ==
    /\ pc = "review_done"
    /\ ReviewFailed("anthropic")
    /\ state.anthropic_review = DefaultReview
    /\ ReviewCalled("google")
    /\ state.google_review = ParsedReview(TRUE)
    /\ state.needs_refinement

\* the step enters the refine node
RefineEntered == visited' # visited /\ Last(visited') = "refine"

\* C29: each execution of the refine node increases refinement_iteration by
\* exactly 1: the step that enters the node increments it before any refine
\* call is issued, and no other step changes it, whatever backends are
\* flagged and whether refine calls succeed or fail.
C29_IncrementOnce ==
    /\ [][/\ RefineEntered =>
                /\ state'.refinement_iteration = state.refinement_iteration + 1
                /\ \A b \in Backends : tasks'[b] \in {"none", "created"}
          /\ ~RefineEntered =>
                state'.refinement_iteration = state.refinement_iteration]_vars
    /\ [](/\ state.refinement_iteration = Count(visited, "refine")
          /\ pc \in {"refine_await", "refine_done"} =>
                state.refinement_iteration = entry.refinement_iteration + 1)

\* a refine node in which one call succeeded and the other failed has returned
C29_Witness ==
    /\ pc = "refine_done"
    /\ state.refinement_iteration = 1
    /\ state.anthropic_output.code = "ref"
    /\ ThoughtItem("google refinement error: boom", "refiner") \in Range(state.thoughts)

\* the backend's stored review has has_issues true
Flagged(s, b) == ReviewOf(s, b) # NoneRecord /\ ReviewOf(s, b).has_issues

\* the thought _refine_code appends when the backend's refine call failed
RefineFailedThought(b) ==
    \E e \in ErrTexts :
        refine_code_except(Forget(state), b, e).thoughts[1] \in Range(state.thoughts)

\* the thought _refine_code appends when the backend's code was refined
RefinedThought(b) ==
    ThoughtItem(b \o " code refined successfully", "refiner") \in Range(state.thoughts)

\* C30: while the refine node runs and when it has returned, the stored
\* reviews are as the node found them, the output of a backend that is not
\* flagged is unchanged, the output of a flagged backend differs at most in
\* code and token_count, and a backend whose refine call failed has a thought
\* recording the failure (and none recording a success) and its previous
\* output.
C30_RefineFrame ==
    pc \in {"refine_await", "refine_done"} =>
        /\ state.anthropic_review = entry.anthropic_review
        /\ state.google_review = entry.google_review
        /\ \A b \in Backends :
              /\ ~Flagged(entry, b) => OutputOf(state, b) = OutputOf(entry, b)
              /\ Flagged(entry, b) =>
                    [OutputOf(state, b) EXCEPT
                        !.code = OutputOf(entry, b).code,
                        !.token_count = OutputOf(entry, b).token_count]
                            = OutputOf(entry, b)
              /\ RefineFailedThought(b) => OutputOf(state, b) = OutputOf(entry, b)
              /\ (pc = "refine_await" /\ tasks[b] = "done") =>
                    RefineFailedThought(b) # RefinedThought(b)

\* both backends were flagged: anthropic's refine call failed and kept its
\* code, google's code was refined
C30_Witness ==
    /\ pc = "refine_done"
    /\ Flagged(entry, "anthropic") /\ Flagged(entry, "google")
    /\ RefineFailedThought("anthropic")
    /\ state.anthropic_output = entry.anthropic_output
    /\ entry.google_output.code = "gen"
    /\ state.google_output.code = "ref"

\* the clarify node has returned after an answer of the backend that does not
\* parse into a question list
Unparseable ==
    /\ pc = "clarify_done"
    /\ results["anthropic"] # NoneRecord
    /\ results["anthropic"].kind # "object"

\* C31 as stated: whenever the clarification backend's answer cannot be parsed
\* into a question list (not JSON, JSON that is not an object, a question
\* entry without its text), the clarify node ends with clarifying_questions
\* empty and a status other than error.
C31_Claim ==
    Unparseable =>
        /\ state.clarifying_questions = <<>>
        /\ state.status # "error"

\* C32: the step that executes the error node leaves error_message as it
\* found it: it sets status and current_phase to error and changes no other
\* field of the state.
C32_ErrorNodeFrame ==
    [][(visited' # visited /\ Last(visited') = "error") =>
          /\ state'.error_message = state.error_message
          /\ state' = [Forget(state) EXCEPT !.status = "error",
                                            !.current_phase = "error"]]_vars

\* the error node ran on a state the after-generate router had put into error
C32_Witness ==
    /\ pc = "END"
    /\ Last(visited) = "error"
    /\ entry.current_phase = "generating"
    /\ state.current_phase = "error"
    /\ state.error_message = "All code generation attempts failed"

\* C34: whenever the run has status complete, at least one backend output is
\* usable: present, with non-empty code and a null error.
C34_Claim ==
    state.status = "complete" => \E b \in Backends : Usable(OutputOf(state, b))

\* the thoughts of one source, in the order they were appended
ThoughtsOf(s, source) == SelectSeq(s.thoughts, LAMBDA item : item.source = source)

\* the generate node has gathered (or awaited in turn) both helpers
GenerateDone == pc = "generate_await" /\ \A b \in Backends : tasks[b] = "done"

\* C35: when the generate node ends, in parallel mode after any interleaving
\* of the two helpers as in sequential mode, the state is the one the
\* sequential order (anthropic to its end, then google) gives for the same
\* backend results: the same anthropic_output, google_output and status and
\* the same routing decision, every other field equal too, and the thoughts
\* the same for each source, only the order between the sources free.
C35_ModeIndependent ==
    GenerateDone =>
        LET seq == generate_sequential(generate_node_begin(entry), results)
        IN  /\ state.anthropic_output = seq.anthropic_output
            /\ state.google_output = seq.google_output
            /\ state.status = seq.status
            /\ should_proceed_after_generate(state).next
                  = should_proceed_after_generate(seq).next
            /\ [state EXCEPT !.thoughts = <<>>] = [seq EXCEPT !.thoughts = <<>>]
            /\ Len(state.thoughts) = Len(seq.thoughts)
            /\ \A source \in Backends \cup {"planner"} :
                  ThoughtsOf(state, source) = ThoughtsOf(seq, source)

\* parallel mode: google's call returned code before anthropic's raised, so
\* the thoughts are not in the order of the sequential mode
C35_Witness ==
    /\ GenerateDone
    /\ state.parallel_generation
    /\ results["google"] = Returned("gen")
    /\ results["anthropic"] = Raised("boom")
    /\ state.thoughts
          # generate_sequential(generate_node_begin(entry), results).thoughts

\* C36: when the review node stores the gathered reviews, a backend whose
\* output is error-free gets the result of its own review task and a backend
\* whose output is not keeps the review it had; no review is taken from the
\* other backend's task, whichever of the outputs are error-free.
C36_OwnReview ==
    [][(pc = "review_await" /\ pc' = "review_done") =>
          \A b \in Backends :
              ReviewOf(state', b) = IF ReviewEligible(OutputOf(state, b))
                                    THEN results[b]
                                    ELSE ReviewOf(state, b)]_vars

\* both outputs were reviewed with different verdicts: issues in anthropic's
\* code, none in google's
C36_Witness ==
    /\ pc = "review_done"
    /\ state.enable_review
    /\ ReviewEligible(state.anthropic_output)
    /\ ReviewEligible(state.google_output)
    /\ state.anthropic_review = ParsedReview(TRUE)
    /\ state.google_review = ParsedReview(FALSE)

----------------------------------------------------------------------------
(* The plan-mode operations of the jobs repository called on a job's row.   *)
(* visited records the calls made, entry the row before the last call.      *)

\* largest number of repository calls made on the row
MaxRepositoryCalls == 3

\* the plans a caller may pass as modified_plan
EditedPlans == {None, "", "edited"}

RepositoryCall(name, arg, raised) == [call |-> name, arg |-> arg, raised |-> raised]

InitRepository ==
    /\ jobs_repo = TRUE
    /\ db = create_job(TeamsDict(Backends))
    /\ entry = db
    /\ visited = <<>>
    /\ pc = "repository"
    /\ state = create_initial_state(0, FALSE, FALSE)
    /\ tasks = NoTasks
    /\ results = NoResults
    /\ jobs = {}
    /\ response = NoneRecord
    /\ run = NoRuns
    /\ cancel = NoCancel
    /\ late = {}
    /\ NoWebsockets
    /\ published = NoEvents

\* a repository coroutine: the update statement executes and the row is
\* changed, or it raises and the coroutine logs and re-raises
Repository(name, arg, row) ==
    /\ Len(visited) < MaxRepositoryCalls
    /\ \E ok \in BOOLEAN :
          /\ db' = IF ok THEN row ELSE db
          /\ visited' = Append(visited, RepositoryCall(name, arg, ~ok))
    /\ entry' = db
    /\ UNCHANGED <<state, pc, tasks, results>>
    /\ UNCHANGED <<jobs_repo, jobs, response, run, cancel, late, active_connections,
                    published>>
    /\ UNCHANGED wsVars

UpdateClarifyingQuestions ==
    \E n \in 1..MaxQuestions :
        Repository("update_clarifying_questions", None,
                   update_clarifying_questions(db, Questions(n)))

SubmitClarifyingAnswers ==
    \E answers \in SUBSET Range(db.clarifying_questions) :
        Repository("submit_clarifying_answers", None,
                   submit_clarifying_answers(db, answers))

UpdatePlanContent ==
    \E plan \in PlanTexts :
        Repository("update_plan_content", plan, update_plan_content(db, plan))

ApprovePlan ==
    \E modified_plan \in EditedPlans :
        Repository("approve_plan", modified_plan, approve_plan(db, modified_plan))

NextRepository ==
    \/ UpdateClarifyingQuestions
    \/ SubmitClarifyingAnswers
    \/ UpdatePlanContent
    \/ ApprovePlan

SpecRepository == InitRepository /\ [][NextRepository]_vars

\* the last call made on the row was an approve_plan that did not raise
Approved ==
    /\ visited # <<>>
    /\ Last(visited).call = "approve_plan"
    /\ ~Last(visited).raised

\* C25 as stated: approving the plan sets plan_approved and advances the
\* status to generating; plan_content becomes the edited plan when one is
\* supplied and is unchanged otherwise.
C25_Original ==
    Approved =>
        /\ db.plan_approved
        /\ db.status = "generating"
        /\ db.plan_content = IF Last(visited).arg # None
                             THEN Last(visited).arg ELSE entry.plan_content

\* C25 amended: approving the plan sets plan_approved and sets the status to
\* dispatching; plan_content becomes the edited plan when a non-empty one is
\* supplied and is unchanged when none or an empty one is; no other column
\* changes.
C25_ApprovePlan ==
    Approved =>
        /\ db.plan_approved
        /\ db.status = "dispatching"
        /\ db.plan_content = IF Last(visited).arg \notin {None, ""}
                             THEN Last(visited).arg ELSE entry.plan_content
        /\ [db EXCEPT !.plan_approved = entry.plan_approved,
                      !.status = entry.status,
                      !.plan_content = entry.plan_content] = entry

\* a stored plan was approved with an edited plan
C25_Witness ==
    /\ Approved
    /\ Last(visited).arg = "edited"
    /\ entry.status = "awaiting_approval"
    /\ entry.plan_content = "plan"
    /\ db.plan_content = "edited"
    /\ db.status = "dispatching"

----------------------------------------------------------------------------
(* Specification of the connection manager: websocket handlers connect and  *)
(* exit and publishers broadcast, interleaved at every await.               *)

\* the job ids of the websocket routes
JobIds == {JobId, "job-2"}

\* websocket_orchestrate is called: manager.connect awaits websocket.accept()
HandlerConnect(c) ==
    /\ handlers[c].pc = "none"
    /\ \E job_id \in JobIds :
          handlers' = [handlers EXCEPT ![c] = [pc |-> "accept", job_id |-> job_id]]
    /\ UNCHANGED <<jobs_repo, db, jobs, response, run, cancel, late,
                   active_connections, broadcasts, published>>
    /\ UNCHANGED wfVars

\* accept() returned: connect registers the websocket and the handler enters
\* its try block (the confirmation, the receive loop)
HandlerAccept(c) ==
    /\ handlers[c].pc = "accept"
    /\ active_connections' = connect(active_connections, c, handlers[c].job_id)
    /\ handlers' = [handlers EXCEPT ![c].pc = "open"]
    /\ UNCHANGED <<jobs_repo, db, jobs, response, run, cancel, late,
                   broadcasts, published>>
    /\ UNCHANGED wfVars

\* accept() raised: connect is left before line 23 and the handler, not yet in
\* its try block, exits
HandlerAcceptRaises(c) ==
    /\ handlers[c].pc = "accept"
    /\ handlers' = [handlers EXCEPT ![c].pc = "exited"]
    /\ UNCHANGED <<jobs_repo, db, jobs, response, run, cancel, late,
                   active_connections, broadcasts, published>>
    /\ UNCHANGED wfVars

\* the receive loop is left (WebSocketDisconnect or another exception): the
\* finally block disconnects the websocket
HandlerExit(c) ==
    /\ handlers[c].pc = "open"
    /\ active_connections' = disconnect(active_connections, c, handlers[c].job_id)
    /\ handlers' = [handlers EXCEPT ![c].pc = "exited"]
    /\ UNCHANGED <<jobs_repo, db, jobs, response, run, cancel, late,
                   broadcasts, published>>
    /\ UNCHANGED wfVars

\* broadcast_to_job lines 50-58: return for an unknown job id, else copy the
\* job's set into a list and await the first send
BroadcastBegin(q) ==
    /\ broadcasts[q].pc = "none"
    /\ \E job_id \in JobIds :
          IF job_id \notin DOMAIN active_connections
          THEN broadcasts' = [broadcasts EXCEPT ![q] =
                   [NoBroadcast EXCEPT !.pc = "returned", !.job_id = job_id]]
          ELSE \E connections \in Lists(active_connections[job_id]) :
                   broadcasts' = [broadcasts EXCEPT ![q] =
                       [NoBroadcast EXCEPT
                           !.pc = IF connections = <<>> THEN "returned" ELSE "send",
                           !.job_id = job_id,
                           !.connections = connections,
                           !.i = 1,
                           !.start = active_connections[job_id]]]
    /\ UNCHANGED <<jobs_repo, db, jobs, response, run, cancel, late,
                   active_connections, handlers, published>>
    /\ UNCHANGED wfVars

\* mutant: the exception of a failed send leaves broadcast_to_job
broadcast_to_job_send_raises(b, ok) ==
    IF ok THEN [b EXCEPT !.delivered = Append(@, b.connections[b.i]), !.i = @ + 1]
    ELSE [b EXCEPT !.raised = TRUE, !.i = Len(b.connections) + 1]

\* broadcast_to_job lines 58-67: the awaited send_json of connections[i]
\* returned or raised; an exception is logged and the connection noted
broadcast_to_job_send(b, ok) ==
    IF ok THEN [b EXCEPT !.delivered = Append(@, b.connections[b.i]), !.i = @ + 1]
    ELSE [b EXCEPT !.disconnected = Append(@, b.connections[b.i]), !.i = @ + 1]

\* one send of a broadcast ends (a send to a websocket whose handler has
\* exited raises); after the last one the noted connections are disconnected
\* and broadcast_to_job returns, with no await in between
BroadcastSend(q) ==
    /\ broadcasts[q].pc = "send"
    /\ \E ok \in BOOLEAN :
          /\ ok => handlers[broadcasts[q].connections[broadcasts[q].i]].pc = "open"
          /\ LET b == broadcast_to_job_send(broadcasts[q], ok)
             IN  IF b.i <= Len(b.connections)
                 THEN /\ broadcasts' = [broadcasts EXCEPT ![q] = b]
                      /\ active_connections' = active_connections
                 ELSE /\ broadcasts' = [broadcasts EXCEPT ![q] =
                                           [b EXCEPT !.pc = "returned"]]
                      /\ active_connections' =
                            IF b.raised THEN active_connections
                            ELSE disconnect_each(active_connections,
                                                 b.disconnected, b.job_id)
    /\ UNCHANGED <<jobs_repo, db, jobs, response, run, cancel, late,
                   handlers, published>>
    /\ UNCHANGED wfVars

InitWebsocket ==
    /\ NoWorkflow
    /\ jobs_repo = FALSE
    /\ db = NoneRecord
    /\ jobs = {}
    /\ response = NoneRecord
    /\ run = NoRuns
    /\ cancel = NoCancel
    /\ late = {}
    /\ NoWebsockets
    /\ published = NoEvents

NextWebsocket ==
    \/ \E c \in Connections : HandlerConnect(c)
    \/ \E c \in Connections : HandlerAccept(c)
    \/ \E c \in Connections : HandlerAcceptRaises(c)
    \/ \E c \in Connections : HandlerExit(c)
    \/ \E q \in Publishers : BroadcastBegin(q)
    \/ \E q \in Publishers : BroadcastSend(q)

SpecWebsocket == InitWebsocket /\ [][NextWebsocket]_vars

\* the websockets a broadcast has awaited the send of
Attempted(b) == Range(b.delivered) \cup Range(b.disconnected)

\* C33: a broadcast sends the message at most once to each websocket that was
\* registered under the job when it began, and to no other; when it returns,
\* every one of those websockets whose send did not fail has been delivered
\* the message, every one whose send failed is out of the registry, and nothing
\* was raised to the publisher
C33_Broadcast ==
    \A q \in Publishers :
        LET b == broadcasts[q]
        IN  /\ Attempted(b) \subseteq b.start
            /\ \A c \in Connections :
                  Count(b.delivered, c) + Count(b.disconnected, c) <= 1
            /\ ~b.raised
            /\ b.pc = "returned" =>
                  /\ Range(b.delivered) = b.start \ Range(b.disconnected)
                  /\ \A c \in Range(b.disconnected) :
                        \A j \in JobIds : c \notin Registered(active_connections, j)

\* a broadcast to two websockets returned: the first send failed, the second
\* was delivered
C33_Witness ==
    \E q \in Publishers :
        /\ broadcasts[q].pc = "returned"
        /\ Len(broadcasts[q].connections) = 2
        /\ broadcasts[q].disconnected = <<broadcasts[q].connections[1]>>
        /\ broadcasts[q].delivered = <<broadcasts[q].connections[2]>>

\* C39: no job id is mapped to an empty set, and a websocket whose handler has
\* exited is registered under no job id
C39_Registry ==
    /\ \A j \in DOMAIN active_connections : active_connections[j] # {}
    /\ \A c \in Connections :
          handlers[c].pc = "exited" =>
              \A j \in JobIds : c \notin Registered(active_connections, j)

\* a handler that was connected has exited while a broadcast that copied its
\* websocket is still sending, and the job has lost its entry
C39_Witness ==
    \E c \in Connections, q \in Publishers :
        /\ handlers[c].pc = "exited"
        /\ broadcasts[q].pc = "send"
        /\ c \in broadcasts[q].start
        /\ broadcasts[q].job_id \notin DOMAIN active_connections

====
